---------------------------- MODULE Spec2Model ----------------------------
(***************************************************************************)
(* A model of bolt11-ts: the bech32 layer, the 5-bit/8-bit converters, the *)
(* amount helpers, and the encode / sign / decode pipeline of BOLT 11      *)
(* payment requests.                                                       *)
(*                                                                         *)
(* Conventions.  A JavaScript string is a sequence of character codes      *)
(* (ASCII), a Uint8Array a sequence of 0..255, a list of 5-bit words a     *)
(* sequence of 0..31.  A function that can throw returns a record whose    *)
(* field ok is FALSE and whose field err names the error that is thrown.   *)
(* A value that can be null or undefined is <<>> when it is, <<v>> when    *)
(* it is v.                                                                *)
(***************************************************************************)
EXTENDS Integers, Sequences, FiniteSets, TLC

(***************************************************************************)
(* JavaScript integers.  The bitwise operators of JavaScript work on       *)
(* signed 32-bit values (ToInt32 of their operands); an int32 is an        *)
(* integer of the model, in -2^31 .. 2^31 - 1.                             *)
(***************************************************************************)
Pow2(n) == 2 ^ n
MinInt32 == (-1073741824) - 1073741824

\* a ^ b for a, b >= 0: bit by bit in XorOfBits, and four bits at a time
\* through the table of the xor of two values below 16 in BitXor
RECURSIVE XorOfBits(_, _)
XorOfBits(a, b) ==
  IF a = 0 THEN b
  ELSE IF b = 0 THEN a
  ELSE ((a + b) % 2) + 2 * XorOfBits(a \div 2, b \div 2)
XorTable == [a \in 0..15 |-> [b \in 0..15 |-> XorOfBits(a, b)]]
RECURSIVE BitXor(_, _)
BitXor(a, b) ==
  IF a = 0 THEN b
  ELSE IF b = 0 THEN a
  ELSE XorTable[a % 16][b % 16] + 16 * BitXor(a \div 16, b \div 16)

\* x >> n (arithmetic shift of an int32) and x & (2^n - 1)
Shr(x, n) == x \div Pow2(n)
LowBits(x, n) == x % Pow2(n)
\* x << n for 0 < n < 31: the low 32 bits of the product, read as an int32
Shl32(x, n) ==
  LET low == x % Pow2(31 - n)
      sign == (x \div Pow2(31 - n)) % 2
  IN  low * Pow2(n) + (IF sign = 1 THEN MinInt32 ELSE 0)

(***************************************************************************)
(* JavaScript numbers.  A number is an IEEE-754 double.  TLC's integers    *)
(* are 32 bits wide, so a non-negative integer of any size is a sequence   *)
(* of 12-bit limbs, least significant first, without leading zero limbs    *)
(* (zero is the empty sequence); a non-negative double is [m, e] of value  *)
(* m * 2^e with m below 2^53, and an integer-valued double is held as the  *)
(* integer it denotes.                                                     *)
(***************************************************************************)
LimbBits == 12
LimbBase == Pow2(LimbBits)

RECURSIVE BigOf(_)
BigOf(i) == IF i = 0 THEN <<>> ELSE <<i % LimbBase>> \o BigOf(i \div LimbBase)

RECURSIVE BigNorm(_)
BigNorm(a) ==
  IF Len(a) > 0 /\ a[Len(a)] = 0 THEN BigNorm(SubSeq(a, 1, Len(a) - 1)) ELSE a

Limb(a, i) == IF i <= Len(a) THEN a[i] ELSE 0
BigLess(a, b) ==
  \/ Len(a) < Len(b)
  \/ /\ Len(a) = Len(b)
     /\ \E i \in 1..Len(a) : a[i] < b[i] /\ \A j \in (i + 1)..Len(a) : a[j] = b[j]

BigAdd(a, b) ==
  LET RECURSIVE AddFrom(_, _)
      AddFrom(i, carry) ==
        IF i > Len(a) /\ i > Len(b) THEN BigOf(carry)
        ELSE <<(Limb(a, i) + Limb(b, i) + carry) % LimbBase>>
               \o AddFrom(i + 1, (Limb(a, i) + Limb(b, i) + carry) \div LimbBase)
  IN  AddFrom(1, 0)

\* a - b for a >= b
BigSub(a, b) ==
  LET RECURSIVE SubFrom(_, _)
      SubFrom(i, borrow) ==
        IF i > Len(a) THEN <<>>
        ELSE <<(a[i] - Limb(b, i) - borrow) % LimbBase>>
               \o SubFrom(i + 1, IF a[i] - Limb(b, i) - borrow < 0 THEN 1 ELSE 0)
  IN  BigNorm(SubFrom(1, 0))

\* a * m, a \div d and a % d for a small m or d (below 2^19)
BigMulSmall(a, m) ==
  LET RECURSIVE MulFrom(_, _)
      MulFrom(i, carry) ==
        IF i > Len(a) THEN BigOf(carry)
        ELSE <<(a[i] * m + carry) % LimbBase>>
               \o MulFrom(i + 1, (a[i] * m + carry) \div LimbBase)
  IN  IF m = 0 THEN <<>> ELSE MulFrom(1, 0)

\* the remainder by d of the limbs of a from i up
RECURSIVE BigRemAt(_, _, _)
BigRemAt(a, d, i) ==
  IF i > Len(a) THEN 0 ELSE (BigRemAt(a, d, i + 1) * LimbBase + a[i]) % d
BigModSmall(a, d) == BigRemAt(a, d, 1)
BigDivSmall(a, d) ==
  BigNorm([i \in 1..Len(a) |-> (BigRemAt(a, d, i + 1) * LimbBase + a[i]) \div d])

BigMul(a, b) ==
  LET RECURSIVE MulFrom(_)
      MulFrom(i) ==
        IF i > Len(b) THEN <<>>
        ELSE BigAdd(BigMulSmall(a, b[i]), <<0>> \o MulFrom(i + 1))
  IN  BigNorm(MulFrom(1))

RECURSIVE BigMulPow10(_, _)
BigMulPow10(a, k) ==
  IF k = 0 \/ Len(a) < 0 THEN a ELSE BigMulPow10(BigMulSmall(a, 10), k - 1)
RECURSIVE BigDivPow10(_, _)
BigDivPow10(a, k) ==
  IF k = 0 \/ Len(a) < 0 THEN a ELSE BigDivPow10(BigDivSmall(a, 10), k - 1)

\* a * 2^k and a \div 2^k
BigShl(a, k) ==
  IF Len(a) = 0 THEN a
  ELSE [i \in 1..(k \div LimbBits) |-> 0] \o BigMulSmall(a, Pow2(k % LimbBits))
BigShr(a, k) ==
  IF k \div LimbBits >= Len(a) THEN <<>>
  ELSE BigDivSmall(SubSeq(a, (k \div LimbBits) + 1, Len(a)), Pow2(k % LimbBits))
\* bit i of a (bit 0 is the least significant)
BigBit(a, i) == (Limb(a, (i \div LimbBits) + 1) \div Pow2(i % LimbBits)) % 2
\* the number of bits of a
BigBitLen(a) ==
  IF Len(a) = 0 THEN 0
  ELSE LimbBits * (Len(a) - 1)
         + (CHOOSE n \in 1..LimbBits : a[Len(a)] < Pow2(n) /\ a[Len(a)] >= Pow2(n - 1))
\* whether a is a multiple of 2^k
BigLowZero(a, k) == \A i \in 0..(k - 1) : BigBit(a, i) = 0

\* floor(p / q) and p mod q, as [q, r]: by shifting when q is a power of two,
\* limb by limb when q is below 2^19, and else by long division, one bit of
\* p at a time from bit k down (the bits of p above bit k are below q and
\* start the remainder; the upper half of a range of bits is done first).
BigDivMod(p, q) ==
  LET Double(a, bit) == BigAdd(BigMulSmall(a, 2), BigOf(bit))
      Bit(st, r2) ==
        IF BigLess(r2, q) THEN [q |-> Double(st.q, 0), r |-> r2]
        ELSE [q |-> Double(st.q, 1), r |-> BigSub(r2, q)]
      RECURSIVE Range(_, _, _)
      Lower(upper, mid, lo) == IF Len(upper.r) >= 0 THEN Range(upper, mid, lo) ELSE upper
      Range(st, hi, lo) ==
        IF hi < lo THEN st
        ELSE IF hi = lo THEN Bit(st, Double(st.r, BigBit(p, hi)))
        ELSE Lower(Range(st, hi, ((hi + lo) \div 2) + 1), (hi + lo) \div 2, lo)
      Long(k) == Range([q |-> <<>>, r |-> BigShr(p, k + 1)], k, 0)
      Shift(k, quot) == [q |-> quot, r |-> BigSub(p, BigShl(quot, k))]
      By(len) ==
        IF BigLowZero(q, len - 1) THEN Shift(len - 1, BigShr(p, len - 1))
        ELSE IF len <= 19
        THEN [q |-> BigDivSmall(p, Limb(q, 1) + Limb(q, 2) * LimbBase),
              r |-> BigOf(BigModSmall(p, Limb(q, 1) + Limb(q, 2) * LimbBase))]
        ELSE Long(IF BigBitLen(p) >= len THEN BigBitLen(p) - len ELSE -1)
  IN  By(BigBitLen(q))

\* The double nearest to p / q (q > 0), ties to the even mantissa: the
\* result of a JavaScript operation whose exact result is p / q.  The
\* division is scaled by 2^e0 so that its quotient has 53 or 54 bits; d is
\* its quotient and remainder by den.
DblRound(d, den, e0) ==
  LET long == BigBitLen(d.q) = 54
      odd == BigBit(d.q, 0) = 1
      up == IF long THEN odd /\ (Len(d.r) > 0 \/ BigBit(d.q, 1) = 1)
            ELSE BigLess(den, BigMulSmall(d.r, 2)) \/ (BigMulSmall(d.r, 2) = den /\ odd)
      mant == IF long THEN BigShr(d.q, 1) ELSE d.q
  IN  [m |-> IF up THEN BigAdd(mant, <<1>>) ELSE mant, e |-> IF long THEN e0 + 1 ELSE e0]
DblOfQuot(p, q) ==
  LET e0 == BigBitLen(p) - BigBitLen(q) - 53
      num == IF e0 >= 0 THEN p ELSE BigShl(p, 0 - e0)
      den == IF e0 >= 0 THEN BigShl(q, e0) ELSE q
  IN  IF Len(p) = 0 THEN [m |-> <<>>, e |-> 0]
      ELSE DblRound(BigDivMod(num, den), den, e0)

\* Number.isInteger(d)
DblIsInteger(d) == d.e >= 0 \/ BigLowZero(d.m, 0 - d.e)
\* the integer an integer-valued double denotes
DblInt(d) == IF d.e >= 0 THEN BigShl(d.m, d.e) ELSE BigShr(d.m, 0 - d.e)
\* Math.round(d): floor(d + 1/2)
MathRound(d) ==
  IF d.e >= 0 THEN BigShl(d.m, d.e)
  ELSE BigShr(BigAdd(d.m, BigShl(<<1>>, (0 - d.e) - 1)), 0 - d.e)

\* 0.1 is the double 3602879701896397 * 2^-55
TenthMant == <<3277, 3276, 3276, 3276, 12>>

\* The arithmetic of the library on doubles a, b that hold integers:
\* a * b, a / b, a * 0.1 and a / 0.1, as a double [m, e].
JsArith(op, a, b) ==
  DblOfQuot(CASE op = "times" -> BigMul(a, b)
              [] op = "over" -> a
              [] op = "timesTenth" -> BigMul(a, TenthMant)
              [] op = "overTenth" -> BigShl(a, 55),
            CASE op = "times" -> <<1>>
              [] op = "over" -> b
              [] op = "timesTenth" -> BigShl(<<1>>, 55)
              [] op = "overTenth" -> TenthMant)
\* the double nearest to the integer n, as the integer it denotes
DblOfInt(n) == DblInt(JsArith("over", n, <<1>>))

\* ToInt32(n): the low 32 bits of n read as a signed value
BigToInt32(n) ==
  ((((Limb(n, 3) % 256) + 128) % 256) - 128) * 16777216 + Limb(n, 2) * LimbBase + Limb(n, 1)

\* the decimal digits of an integer
RECURSIVE BigToString(_)
BigToString(n) ==
  IF Len(n) = 0 THEN <<48>>
  ELSE IF Len(n) = 1 /\ n[1] < 10 THEN <<48 + n[1]>>
  ELSE Append(BigToString(BigDivSmall(n, 10)), 48 + BigModSmall(n, 10))

\* Number.prototype.toString() of an integer-valued double v below 10^21:
\* the decimal digits of the integer with the fewest significant digits that
\* the double nearest to it is v, the one nearest to v when several have as
\* few (the even one when two are as near).  Below 2^53 that integer is v.
\* Denoting(v, z): those of the two integers next to v that end in z zeros
\* whose double is v.
Denoting(v, z) ==
  LET lo == BigMulPow10(BigDivPow10(v, z), z)
  IN  {c \in {lo, BigAdd(lo, BigMulPow10(<<1>>, z))} : DblOfInt(c) = v}
\* cands denote v with z zeros; more zeros are tried first
RECURSIVE Shortest(_, _, _)
Shortest(v, z, cands) ==
  LET Dist(a) == IF BigLess(a, v) THEN BigSub(v, a) ELSE BigSub(a, v)
  IN  IF Denoting(v, z + 1) # {} THEN Shortest(v, z + 1, Denoting(v, z + 1))
      ELSE CHOOSE c \in cands :
             \A o \in cands \ {c} :
               \/ BigLess(Dist(c), Dist(o))
               \/ Dist(c) = Dist(o) /\ BigModSmall(BigDivPow10(c, z), 2) = 0
JsToString(v) == BigToString(IF BigBitLen(v) <= 53 THEN v ELSE Shortest(v, 0, {v}))

\* /^\d+$/.test(s)
AllDigits(s) == Len(s) > 0 /\ \A i \in 1..Len(s) : s[i] >= 48 /\ s[i] <= 57

\* parseInt(s, 10) of a string of digits: the double nearest to the integer
\* that s denotes
DecimalValue(s) ==
  LET RECURSIVE From(_, _)
      From(k, n) ==
        IF k > Len(s) \/ Len(n) < 0 THEN n
        ELSE From(k + 1, BigAdd(BigMulSmall(n, 10), BigOf(s[k] - 48)))
  IN  From(1, <<>>)
parseInt(s) == DblOfInt(DecimalValue(s))

\* String.prototype.toLowerCase / toUpperCase on ASCII
toLowerCase(s) == [i \in 1..Len(s) |-> IF s[i] >= 65 /\ s[i] <= 90 THEN s[i] + 32 ELSE s[i]]
toUpperCase(s) == [i \in 1..Len(s) |-> IF s[i] >= 97 /\ s[i] <= 122 THEN s[i] - 32 ELSE s[i]]

\* Array.prototype.slice(from, to) with 0-based from (inclusive), to (exclusive)
Slice(s, from, to) ==
  IF to <= from THEN <<>> ELSE [i \in 1..(to - from) |-> s[from + i]]

\* String.prototype.lastIndexOf / indexOf, 0-based, -1 when absent
lastIndexOf(s, c) ==
  LET I == {i \in 1..Len(s) : s[i] = c}
  IN  IF I = {} THEN -1 ELSE (CHOOSE i \in I : \A j \in I : j <= i) - 1
indexOf(s, c) ==
  LET I == {i \in 1..Len(s) : s[i] = c}
  IN  IF I = {} THEN -1 ELSE (CHOOSE i \in I : \A j \in I : i <= j) - 1

(***************************************************************************)
(* bech32.ts                                                               *)
(***************************************************************************)
\* 'qpzry9x8gf2tvdw0s3jn54khce6mua7l'
CHARSET ==
  << 113, 112, 122, 114, 121, 57, 120, 56, 103, 102, 50, 116, 118, 100, 119, 48,
     115, 51, 106, 110, 53, 52, 107, 104, 99, 101, 54, 109, 117, 97, 55, 108 >>

\* 0x3b6a57b2, 0x26508e6d, 0x1ea119fa, 0x3d4233dd, 0x2a1462b3
GENERATOR == << 996825010, 642813549, 513874426, 1027748829, 705979059 >>

\* The for loop of polymod over the values, in order: Step is one iteration,
\* Gen its inner loop.  A range of values is split in halves to bound the
\* depth of the evaluation; the test on left makes TLC evaluate the first
\* half before it starts the second.
polymod(values) ==
  LET RECURSIVE Gen(_, _, _)
      Gen(chk, top, i) ==
        IF i = 5 THEN chk
        ELSE Gen(IF Shr(top, i) % 2 = 1 THEN BitXor(chk, GENERATOR[i + 1]) ELSE chk,
                 top, i + 1)
      Step(chk, v) == Gen(BitXor(Shl32(LowBits(chk, 25), 5), v), Shr(chk, 25), 0)
      RECURSIVE Range(_, _, _)
      Rest(left, lo, hi) == IF left >= 0 THEN Range(left, lo, hi) ELSE left
      Range(chk, lo, hi) ==
        IF lo > hi THEN chk
        ELSE IF lo = hi THEN Step(chk, values[lo])
        ELSE Rest(Range(chk, lo, (lo + hi) \div 2), ((lo + hi) \div 2) + 1, hi)
  IN  Range(1, 1, Len(values))

hrpExpand(hrp) ==
  [i \in 1..Len(hrp) |-> Shr(hrp[i], 5)] \o <<0>> \o [i \in 1..Len(hrp) |-> hrp[i] % 32]

\* verifyChecksum that accepts every polymod
verifyChecksum_Skipped(hrp, data) == polymod(hrpExpand(hrp) \o data) >= 0
verifyChecksum(hrp, data) == polymod(hrpExpand(hrp) \o data) = 1

\* createChecksum without the final xor with 1
createChecksum_NoFinalXor(hrp, data) ==
  LET Words(mod) == [i \in 1..6 |-> Shr(mod, 5 * (5 - (i - 1))) % 32]
  IN  Words(polymod(hrpExpand(hrp) \o data \o <<0, 0, 0, 0, 0, 0>>))

createChecksum(hrp, data) ==
  LET Words(mod) == [i \in 1..6 |-> Shr(mod, 5 * (5 - (i - 1))) % 32]
  IN  Words(BitXor(polymod(hrpExpand(hrp) \o data \o <<0, 0, 0, 0, 0, 0>>), 1))

bech32Encode(hrp, data) ==
  LET Chars(all) == [i \in 1..Len(all) |-> CHARSET[all[i] + 1]]
  IN  hrp \o <<49>> \o Chars(data \o createChecksum(hrp, data))

\* bech32Decode without the lower-casing of the input
bech32Decode_NoLower(str) ==
  LET Bad(e) == [ok |-> FALSE, err |-> e, hrp |-> <<>>, data |-> <<>>]
      Checked(hrp, idx) ==
        IF \E i \in 1..Len(idx) : idx[i] = -1 THEN Bad("Invalid bech32 character")
        ELSE IF ~verifyChecksum(hrp, idx) THEN Bad("Invalid checksum")
        ELSE [ok |-> TRUE, err |-> "", hrp |-> hrp, data |-> Slice(idx, 0, Len(idx) - 6)]
      Indexed(hrp, dataStr) ==
        Checked(hrp, [i \in 1..Len(dataStr) |-> indexOf(CHARSET, dataStr[i])])
      Split(input, sepIndex) ==
        IF sepIndex = -1 THEN Bad("No separator character found")
        ELSE IF sepIndex = 0 THEN Bad("Empty HRP")
        ELSE IF sepIndex + 7 > Len(input) THEN Bad("Checksum too short")
        ELSE Indexed(Slice(input, 0, sepIndex), Slice(input, sepIndex + 1, Len(input)))
      Lowered(input) == Split(input, lastIndexOf(input, 49))
  IN  Lowered(str)

bech32Decode(str) ==
  LET Bad(e) == [ok |-> FALSE, err |-> e, hrp |-> <<>>, data |-> <<>>]
      Checked(hrp, idx) ==
        IF \E i \in 1..Len(idx) : idx[i] = -1 THEN Bad("Invalid bech32 character")
        ELSE IF ~verifyChecksum(hrp, idx) THEN Bad("Invalid checksum")
        ELSE [ok |-> TRUE, err |-> "", hrp |-> hrp, data |-> Slice(idx, 0, Len(idx) - 6)]
      Indexed(hrp, dataStr) ==
        Checked(hrp, [i \in 1..Len(dataStr) |-> indexOf(CHARSET, dataStr[i])])
      Split(input, sepIndex) ==
        IF sepIndex = -1 THEN Bad("No separator character found")
        ELSE IF sepIndex = 0 THEN Bad("Empty HRP")
        ELSE IF sepIndex + 7 > Len(input) THEN Bad("Checksum too short")
        ELSE Indexed(Slice(input, 0, sepIndex), Slice(input, sepIndex + 1, Len(input)))
      Lowered(input) == Split(input, lastIndexOf(input, 49))
  IN  Lowered(toLowerCase(str))

(***************************************************************************)
(* Bit-level converters (bech32.ts).  The accumulator is a 32-bit value:   *)
(* acc << n keeps the low 32 bits and the code never masks it.  acc | w    *)
(* adds w because the shift has cleared the low bits.  BitsLoop is the for *)
(* loop of a converter from units of `from` bits to units of `to` bits     *)
(* (its inner while loop is Drain); it gives [acc, bits, out].             *)
(***************************************************************************)
BitsLoop(units, from, to) ==
  LET RECURSIVE Drain(_, _, _)
      Drain(acc, bits, out) ==
        IF bits >= to
        THEN Drain(acc, bits - to, Append(out, Shr(acc, bits - to) % Pow2(to)))
        ELSE [acc |-> acc, bits |-> bits, out |-> out]
      Step(st, u) == Drain(Shl32(st.acc, from) + u, st.bits + from, st.out)
      RECURSIVE Range(_, _, _)
      Rest(left, lo, hi) == IF left.bits >= 0 THEN Range(left, lo, hi) ELSE left
      Range(st, lo, hi) ==
        IF lo > hi THEN st
        ELSE IF lo = hi THEN Step(st, units[lo])
        ELSE Rest(Range(st, lo, (lo + hi) \div 2), ((lo + hi) \div 2) + 1, hi)
  IN  Range([acc |-> 0, bits |-> 0, out |-> <<>>], 1, Len(units))

fiveToEight(words, pad) ==
  LET Flushed(r) ==
        IF pad /\ r.bits > 0 THEN Append(r.out, Shl32(r.acc, 8 - r.bits) % 256)
        ELSE r.out
  IN  Flushed(BitsLoop(words, 5, 8))

\* allowNonzeroPadding only guards an empty branch: the result ignores it
fiveToEightTrim(words) == BitsLoop(words, 5, 8).out

\* eightToFive without the last word of the residual bits
eightToFive_NoFlush(bytes) == BitsLoop(bytes, 8, 5).out

eightToFive(bytes) ==
  LET Flushed(r) ==
        IF r.bits > 0 THEN Append(r.out, Shl32(r.acc, 5 - r.bits) % 32) ELSE r.out
  IN  Flushed(BitsLoop(bytes, 8, 5))

(***************************************************************************)
(* Amount helpers (helpers.ts) and their twins in the decoder (decode.ts   *)
(* parseAmount) and the encoder (encode.ts encodeAmountFromMsat).          *)
(* Suffixes: 'm' = 109, 'u' = 117, 'n' = 110, 'p' = 112.  An amount is an  *)
(* integer-valued double; an amount string is a sequence of character      *)
(* codes.  A multiplier or divisor is a power of ten, given by its         *)
(* exponent, or the double 0.1, given as -1.                               *)
(***************************************************************************)
\* MULTIPLIERS: m, u, n, p
Multipliers == [c \in {109, 117, 110, 112} |->
                  CASE c = 109 -> 8 [] c = 117 -> 5 [] c = 110 -> 2 [] c = 112 -> -1]

\* hrpToMillisatNum: [ok, err, msat]; num is parseInt(numStr)
AmountChecked(numStr, isPico, mult, num) ==
  IF Len(numStr) = 0 \/ ~AllDigits(numStr) \/ (Len(numStr) > 1 /\ numStr[1] = 48)
  THEN [ok |-> FALSE, err |-> "Invalid amount", msat |-> <<>>]
  ELSE IF isPico /\ BigModSmall(num, 10) # 0
  THEN [ok |-> FALSE, err |-> "pico-bitcoin amount must be a multiple of 10", msat |-> <<>>]
  ELSE [ok |-> TRUE, err |-> "",
        msat |-> MathRound(JsArith(IF mult = -1 THEN "timesTenth" ELSE "times", num,
                                   IF mult = -1 THEN <<>> ELSE BigMulPow10(<<1>>, mult)))]
hrpToMillisatNum(amountStr) ==
  LET lastChar == IF Len(amountStr) > 0 THEN amountStr[Len(amountStr)] ELSE 0
      hasSuffix == lastChar \in DOMAIN Multipliers
      numStr == IF hasSuffix THEN Slice(amountStr, 0, Len(amountStr) - 1) ELSE amountStr
  IN  AmountChecked(numStr, lastChar = 112, IF hasSuffix THEN Multipliers[lastChar] ELSE 11,
                    IF AllDigits(numStr) THEN parseInt(numStr) ELSE <<>>)

\* the string that hrpToMillisat returns, or the error it throws
hrpToMillisat(hrp) ==
  LET Of(r) == [ok |-> r.ok, err |-> r.err,
                str |-> IF r.ok THEN JsToString(r.msat) ELSE <<>>]
  IN  Of(hrpToMillisatNum(hrp))

\* msat / 1000 as the integer it is when msat % 1000 is 0
OverThousand(msat) == DblInt(JsArith("over", msat, BigOf(1000)))

hrpToSat(hrp) ==
  LET Of(r) ==
        IF ~r.ok THEN [ok |-> FALSE, err |-> r.err, str |-> <<>>]
        ELSE IF BigModSmall(r.msat, 1000) # 0
        THEN [ok |-> FALSE, err |-> "not a whole number of satoshis", str |-> <<>>]
        ELSE [ok |-> TRUE, err |-> "", str |-> JsToString(OverThousand(r.msat))]
  IN  Of(hrpToMillisatNum(hrp))

\* parseAmount of the decoder: [ok, err, satoshis, millisatoshis]
ParsedAmount(msat) ==
  [ok |-> TRUE, err |-> "",
   satoshis |-> IF BigModSmall(msat, 1000) = 0 THEN <<OverThousand(msat)>> ELSE <<>>,
   millisatoshis |-> <<JsToString(msat)>>]
ParseChecked(numStr, isPico, mult, num) ==
  LET Bad(e) == [ok |-> FALSE, err |-> e, satoshis |-> <<>>, millisatoshis |-> <<>>]
  IN  IF Len(numStr) = 0 \/ ~AllDigits(numStr) \/ (Len(numStr) > 1 /\ numStr[1] = 48)
      THEN Bad("Invalid amount")
      ELSE IF isPico /\ BigModSmall(num, 10) # 0
      THEN Bad("pico-bitcoin amount must be a multiple of 10")
      ELSE ParsedAmount(MathRound(JsArith(IF mult = -1 THEN "timesTenth" ELSE "times", num,
                                          IF mult = -1 THEN <<>>
                                          ELSE BigMulPow10(<<1>>, mult))))
parseAmount(amountStr) ==
  LET lastChar == IF Len(amountStr) > 0 THEN amountStr[Len(amountStr)] ELSE 0
      hasSuffix == lastChar \in DOMAIN Multipliers
      numStr == IF hasSuffix THEN Slice(amountStr, 0, Len(amountStr) - 1) ELSE amountStr
  IN  ParseChecked(numStr, lastChar = 112, IF hasSuffix THEN Multipliers[lastChar] ELSE 11,
                   IF AllDigits(numStr) THEN parseInt(numStr) ELSE <<>>)

\* msatToHrpString: the loop over the options m, u, n, p, then the fallback
AmountOptions ==
  << [suffix |-> 109, divisor |-> 8], [suffix |-> 117, divisor |-> 5],
     [suffix |-> 110, divisor |-> 2], [suffix |-> 112, divisor |-> -1] >>
\* msat / divisor
OverDivisor(msat, divisor) ==
  JsArith(IF divisor = -1 THEN "overTenth" ELSE "over", msat,
          IF divisor = -1 THEN <<>> ELSE BigMulPow10(<<1>>, divisor))
RECURSIVE OptionFrom(_, _)
\* val is msat / AmountOptions[i].divisor
OptionTried(msat, i, val) ==
  IF DblIsInteger(val) /\ Len(DblInt(val)) > 0
  THEN [val |-> DblInt(val), suffix |-> AmountOptions[i].suffix]
  ELSE OptionFrom(msat, i + 1)
OptionFrom(msat, i) ==
  IF i <= Len(AmountOptions) THEN OptionTried(msat, i, OverDivisor(msat, AmountOptions[i].divisor))
  ELSE [val |-> MathRound(OverDivisor(msat, -1)), suffix |-> 112]
msatToHrpString(msat) ==
  LET Token(choice) == Append(JsToString(choice.val), choice.suffix)
  IN  Token(OptionFrom(msat, 1))

\* encodeAmountFromMsat of the encoder has the statements of msatToHrpString
encodeAmountFromMsat(msat) == msatToHrpString(msat)
\* sat * 1000
TimesThousand(sat) == DblInt(JsArith("times", sat, BigOf(1000)))
satToHrp(sat) == msatToHrpString(TimesThousand(sat))
\* msat is the number, or parseInt of the string, that the caller passes
millisatToHrp(msat) == msatToHrpString(msat)

(***************************************************************************)
(* utils.ts.  The strings of the model have code points below 0x800, so a  *)
(* character is one or two bytes of UTF-8; the characters of a hexadecimal *)
(* string are letters and digits.                                          *)
(***************************************************************************)
\* the concatenation of the sequences ss[lo], ..., ss[hi]
RECURSIVE Flatten(_, _, _)
Flatten(ss, lo, hi) ==
  IF lo > hi THEN <<>>
  ELSE IF lo = hi THEN ss[lo]
  ELSE Flatten(ss, lo, (lo + hi) \div 2) \o Flatten(ss, ((lo + hi) \div 2) + 1, hi)

\* the value of a hexadecimal digit, -1 for another character
HexDigit(c) ==
  IF c >= 48 /\ c <= 57 THEN c - 48
  ELSE IF c >= 97 /\ c <= 102 THEN c - 87
  ELSE IF c >= 65 /\ c <= 70 THEN c - 55
  ELSE -1

\* hexToBytes: [ok, err, bytes].  parseInt(pair, 16) reads the leading
\* hexadecimal digits of the pair; NaN is stored as 0.
hexToBytes(hex) ==
  LET Pair(hi, lo) == IF hi = -1 THEN 0 ELSE IF lo = -1 THEN hi ELSE 16 * hi + lo
  IN  IF Len(hex) % 2 # 0
      THEN [ok |-> FALSE, err |-> "Hex string must have even length", bytes |-> <<>>]
      ELSE [ok |-> TRUE, err |-> "",
            bytes |-> [i \in 1..(Len(hex) \div 2) |->
                         Pair(HexDigit(hex[2 * i - 1]), HexDigit(hex[2 * i]))]]

\* bytesToHex: two lower-case digits per byte
bytesToHex(bytes) ==
  LET Digit(v) == IF v < 10 THEN 48 + v ELSE 87 + v
  IN  [i \in 1..(2 * Len(bytes)) |->
         IF i % 2 = 1 THEN Digit(bytes[(i + 1) \div 2] \div 16)
         ELSE Digit(bytes[i \div 2] % 16)]

\* stringToBytes: TextEncoder.encode
stringToBytes(str) ==
  Flatten([i \in 1..Len(str) |->
             IF str[i] < 128 THEN <<str[i]>>
             ELSE <<192 + (str[i] \div 64), 128 + (str[i] % 64)>>], 1, Len(str))

\* bytesToString: TextDecoder('utf-8').decode.  A byte that is no character
\* and no part of a two-byte character decodes to U+FFFD (65533).
bytesToString(bytes) ==
  LET IsLead(i) == /\ bytes[i] >= 194 /\ bytes[i] <= 223 /\ i < Len(bytes)
                   /\ bytes[i + 1] >= 128 /\ bytes[i + 1] <= 191
      IsTail(i) == i > 1 /\ IsLead(i - 1)
  IN  Flatten([i \in 1..Len(bytes) |->
                 IF IsTail(i) THEN <<>>
                 ELSE IF IsLead(i) THEN <<(bytes[i] - 192) * 64 + (bytes[i + 1] - 128)>>
                 ELSE IF bytes[i] < 128 THEN <<bytes[i]>>
                 ELSE <<65533>>], 1, Len(bytes))

\* bytesToInt and wordsToInt: result = result * base + unit on doubles; the
\* product is exact and the sum is rounded.  The iterations are split in
\* halves, and the test in Then makes TLC compute the result of the first
\* half before it starts the second.
RECURSIVE DigitsFrom(_, _, _, _, _)
DigitsThen(units, base, lo, hi, result) ==
  IF Len(result) >= 0 THEN DigitsFrom(units, base, lo, hi, result) ELSE result
\* the iterations lo..hi of the loop, started with result
DigitsFrom(units, base, lo, hi, result) ==
  IF lo > hi THEN result
  ELSE IF lo = hi
  THEN DblOfInt(BigAdd(BigMulSmall(result, base), BigOf(units[lo])))
  ELSE DigitsThen(units, base, ((lo + hi) \div 2) + 1, hi,
                  DigitsFrom(units, base, lo, (lo + hi) \div 2, result))
DigitsToInt(units, base) == DigitsFrom(units, base, 1, Len(units), <<>>)
bytesToInt(bytes) == DigitsToInt(bytes, 256)
wordsToInt(words) == DigitsToInt(words, 32)

\* intToWords: num & 31 reads ToInt32(num), and num >>= 5 leaves an int32
intToWords(num, length) ==
  LET RECURSIVE Loop(_, _, _)
      Loop(n, i, words) ==
        IF i = length THEN words ELSE Loop(Shr(n, 5), i + 1, <<n % 32>> \o words)
  IN  Loop(BigToInt32(num), 0, <<>>)

concatBytes(a, b) == a \o b

\* sha256: a digest of 32 bytes that stands for SHA-256 of @noble/hashes.
\* Two sums over the bytes, each with its own multiplier and modulus, are
\* spread over the 32 bytes.
sha256(data) ==
  LET RECURSIVE Range(_, _, _, _, _)
      Rest(left, mul, mod, lo, hi) ==
        IF left >= 0 THEN Range(left, mul, mod, lo, hi) ELSE left
      Range(acc, mul, mod, lo, hi) ==
        IF lo > hi THEN acc
        ELSE IF lo = hi THEN (acc * mul + data[lo] + 1) % mod
        ELSE Rest(Range(acc, mul, mod, lo, (lo + hi) \div 2), mul, mod,
                  ((lo + hi) \div 2) + 1, hi)
      Spread(a, b) ==
        [j \in 1..32 |-> (((a + 3 * j) * (2 * j + 1)) \div 16 + (b + j) * (j + 2)) % 256]
  IN  Spread(Range(7, 31, 65521, 1, Len(data)), Range(11, 37, 32749, 1, Len(data)))

(***************************************************************************)
(* crypto.ts.  A BigInt is a Big of the model.  @noble/secp256k1 is        *)
(* stood for by a signature scheme on the integers modulo N that keeps the *)
(* contract of the provider: with z the hash, d the key and r a nonce      *)
(* drawn from both, a signature is (r, s) with s = d + z + r or, when that *)
(* exceeds N / 2, its negation with recovery id 1; recovery gives the      *)
(* public key of s - z - r.  (r, s) with id v and (r, N - s) with id v ^ 1 *)
(* recover the same key, as for ECDSA.                                     *)
(***************************************************************************)
\* bytesToBigInt: the big-endian integer of the bytes
bytesToBigInt(bytes) ==
  LET RECURSIVE From(_, _)
      Then(i, n) == IF Len(n) >= 0 THEN From(i, n) ELSE n
      From(i, n) ==
        IF i > Len(bytes) THEN n
        ELSE Then(i + 1, BigAdd(BigMulSmall(n, 256), BigOf(bytes[i])))
  IN  From(1, <<>>)
\* the big-endian bytes of n, len of them
BigToBytes(n, len) == [i \in 1..len |-> BigModSmall(BigShr(n, 8 * (len - i)), 256)]

\* 0xfffffffffffffffffffffffffffffffebaaedce6af48a03bbfd25e8cd0364141
N ==
  bytesToBigInt(<< 255, 255, 255, 255, 255, 255, 255, 255, 255, 255, 255, 255, 255, 255,
                   255, 254, 186, 174, 220, 230, 175, 72, 160, 59, 191, 210, 94, 140, 208,
                   54, 65, 65 >>)
HALF_N == BigDivSmall(N, 2)

\* a + b and a - b modulo N, for a, b below N
AddModN(a, b) == IF BigLess(BigAdd(a, b), N) THEN BigAdd(a, b) ELSE BigSub(BigAdd(a, b), N)
SubModN(a, b) == IF BigLess(a, b) THEN BigSub(BigAdd(a, N), b) ELSE BigSub(a, b)
\* a modulo N, for a below 2 N
ModN(a) == IF BigLess(a, N) THEN a ELSE BigSub(a, N)
\* whether n is a scalar, in 1 .. N - 1
IsScalar(n) == Len(n) > 0 /\ BigLess(n, N)
\* the compressed public key of the scalar d: 33 bytes
PointOf(d) == <<2 + BigModSmall(d, 2)>> \o BigToBytes(SubModN(N, d), 32)

\* secp256k1.getPublicKey(privateKey, true): [ok, bytes]
secpGetPublicKey(privateKey) ==
  LET Of(d) == IF Len(privateKey) # 32 \/ ~IsScalar(d) THEN [ok |-> FALSE, bytes |-> <<>>]
               ELSE [ok |-> TRUE, bytes |-> PointOf(d)]
  IN  Of(bytesToBigInt(privateKey))

\* the signature of the nonce r and of s, made canonical (low s)
Sealed(r, s) ==
  IF Len(r) = 0 \/ Len(s) = 0 THEN [ok |-> FALSE, signature |-> <<>>, recoveryFlag |-> 0]
  ELSE [ok |-> TRUE,
        signature |-> BigToBytes(r, 32)
                        \o BigToBytes(IF BigLess(HALF_N, s) THEN BigSub(N, s) ELSE s, 32),
        recoveryFlag |-> IF BigLess(HALF_N, s) THEN 1 ELSE 0]
SignWith(z, d, r) == Sealed(r, AddModN(AddModN(d, z), r))
\* secp256k1.sign(msgHash, privateKey, {recovered, canonical}):
\* [ok, signature, recoveryFlag]
secpSign(msgHash, privateKey) ==
  LET Of(z, d) ==
        IF Len(privateKey) # 32 \/ ~IsScalar(d)
        THEN [ok |-> FALSE, signature |-> <<>>, recoveryFlag |-> 0]
        ELSE SignWith(z, d, AddModN(AddModN(z, d), AddModN(d, <<1>>)))
  IN  Of(ModN(bytesToBigInt(msgHash)), bytesToBigInt(privateKey))

\* secp256k1.recoverPublicKey(msgHash, signature, recovery, true): [ok, bytes]
secpRecoverPublicKey(msgHash, signature, recovery) ==
  LET Key(d) == IF Len(d) = 0 THEN [ok |-> FALSE, bytes |-> <<>>]
                ELSE [ok |-> TRUE, bytes |-> PointOf(d)]
      Of(z, r, s) ==
        IF recovery \notin {0, 1} \/ Len(signature) # 64 \/ ~IsScalar(r) \/ ~IsScalar(s)
        THEN [ok |-> FALSE, bytes |-> <<>>]
        ELSE Key(SubModN(SubModN(IF recovery = 0 THEN s ELSE BigSub(N, s), z), r))
  IN  Of(ModN(bytesToBigInt(msgHash)), bytesToBigInt(Slice(signature, 0, 32)),
         bytesToBigInt(Slice(signature, 32, 64)))

\* signCompact: [ok, err, signature, recoveryFlag]
signCompact(msgHash, privateKey) ==
  LET Of(res) ==
        [ok |-> res.ok, err |-> IF res.ok THEN "" ELSE "crypto provider error",
         signature |-> res.signature, recoveryFlag |-> res.recoveryFlag]
  IN  Of(secpSign(msgHash, privateKey))

\* getPublicKey of crypto.ts: [ok, err, hex]
getPublicKey(privateKey) ==
  LET Of(res) ==
        [ok |-> res.ok, err |-> IF res.ok THEN "" ELSE "crypto provider error",
         hex |-> bytesToHex(res.bytes)]
  IN  Of(secpGetPublicKey(privateKey))

\* a normalizeSig that leaves S as it is
normalizeSig_Keep(sig) == sig
normalizeSig(sig) ==
  LET Of(s) == Slice(sig, 0, 32) \o BigToBytes(IF BigLess(HALF_N, s) THEN BigSub(N, s) ELSE s, 32)
  IN  Of(bytesToBigInt(Slice(sig, 32, Len(sig))))

\* recoverPublicKey of crypto.ts: <<hex>>, or <<>> for null.  An attempt
\* that throws falls through to the next one.
recoverPublicKey(msgHash, signature, recoveryFlag) ==
  LET Pub(res) == IF res.ok THEN <<bytesToHex(res.bytes)>> ELSE <<>>
      OrElse(first, second) == IF first.ok THEN first ELSE second
  IN  IF ~BigLess(HALF_N, bytesToBigInt(Slice(signature, 32, Len(signature))))
      THEN Pub(secpRecoverPublicKey(msgHash, signature, recoveryFlag))
      ELSE Pub(OrElse(secpRecoverPublicKey(msgHash, signature, BitXor(recoveryFlag, 1)),
                      secpRecoverPublicKey(msgHash, normalizeSig(signature), recoveryFlag)))

(***************************************************************************)
(* types.ts.  A Network is a record; a string that a caller passes in the  *)
(* place of a Network is the record [string |-> s], which has no bech32.   *)
(***************************************************************************)
\* NETWORKS: 'bc', 'tb', 'tbs', 'bcrt', 'sb'
NETWORKS ==
  [bitcoin |-> [bech32 |-> <<98, 99>>, pubKeyHash |-> 0, scriptHash |-> 5,
                validWitnessVersions |-> <<0, 1>>],
   testnet |-> [bech32 |-> <<116, 98>>, pubKeyHash |-> 111, scriptHash |-> 196,
                validWitnessVersions |-> <<0, 1>>],
   signet |-> [bech32 |-> <<116, 98, 115>>, pubKeyHash |-> 111, scriptHash |-> 196,
               validWitnessVersions |-> <<0, 1>>],
   regtest |-> [bech32 |-> <<98, 99, 114, 116>>, pubKeyHash |-> 111, scriptHash |-> 196,
                validWitnessVersions |-> <<0, 1>>],
   simnet |-> [bech32 |-> <<115, 98>>, pubKeyHash |-> 63, scriptHash |-> 123,
               validWitnessVersions |-> <<0, 1>>]]
\* Object.values(NETWORKS) follows the order of the keys
NetworkNames == <<"bitcoin", "testnet", "signet", "regtest", "simnet">>
\* the eleven tag names, and the named feature pairs at bits 0, 2, ..., 18
TagNames ==
  {"payment_hash", "payment_secret", "description", "purpose_commit_hash", "payee",
    "expire_time", "min_final_cltv_expiry", "fallback_address", "route_hint",
    "feature_bits", "metadata"}
FeatureNames ==
  <<"option_data_loss_protect", "initial_routing_sync", "option_upfront_shutdown_script",
    "gossip_queries", "var_onion_optin", "gossip_queries_ex", "option_static_remotekey",
    "payment_secret", "basic_mpp", "option_support_large_channel">>

\* new Date(ms).toISOString(): the string of the instant ms, which the model
\* keeps as ms; a RangeError beyond 8.64e15 ms
toISOString(ms) ==
  IF BigLess(BigMulPow10(BigOf(864), 13), ms) THEN [ok |-> FALSE, iso |-> <<>>]
  ELSE [ok |-> TRUE, iso |-> ms]

(***************************************************************************)
(* encode.ts.  A tag is [tagName, data]; a number is an integer of the     *)
(* model; a hex string and a text are strings.  An options record has the  *)
(* fields network, satoshis, millisatoshis, timestamp (each <<>> when      *)
(* absent) and tags; millisatoshis is [type, val] with type "string" or    *)
(* "number".                                                               *)
(***************************************************************************)
TAG_NAME_TO_CODE ==
  [payment_hash |-> 1, payment_secret |-> 16, description |-> 13,
   purpose_commit_hash |-> 23, payee |-> 19, expire_time |-> 6,
   min_final_cltv_expiry |-> 24, fallback_address |-> 9, route_hint |-> 3,
   feature_bits |-> 5, metadata |-> 27]

\* validateTags without the test for payment_secret
validateTags_NoSecret(tags) ==
  LET Some(names) == \E i \in 1..Len(tags) : tags[i].tagName \in names
  IN  IF ~Some({"payment_hash"}) THEN [ok |-> FALSE, err |-> "payment_hash tag is required"]
      ELSE IF ~Some({"description", "purpose_commit_hash"})
      THEN [ok |-> FALSE, err |-> "description or purpose_commit_hash tag is required"]
      ELSE [ok |-> TRUE, err |-> ""]

\* validateTags: [ok, err]
validateTags(tags) ==
  LET Some(names) == \E i \in 1..Len(tags) : tags[i].tagName \in names
  IN  IF ~Some({"payment_hash"}) THEN [ok |-> FALSE, err |-> "payment_hash tag is required"]
      ELSE IF ~Some({"payment_secret"})
      THEN [ok |-> FALSE, err |-> "payment_secret tag is required"]
      ELSE IF ~Some({"description", "purpose_commit_hash"})
      THEN [ok |-> FALSE, err |-> "description or purpose_commit_hash tag is required"]
      ELSE [ok |-> TRUE, err |-> ""]

\* buildTagsObject: obj starts empty (<<>> under each name) and the switch
\* assigns the data of each tag in turn under its name; a tag of another name
\* assigns nothing
RECURSIVE TagsAssigned(_, _, _)
TagsAssigned(tags, i, obj) ==
  IF i > Len(tags) \/ DOMAIN obj = {} THEN obj
  ELSE TagsAssigned(tags, i + 1,
                    IF tags[i].tagName \in TagNames
                    THEN [obj EXCEPT ![tags[i].tagName] = <<tags[i].data>>]
                    ELSE obj)
buildTagsObject(tags) == TagsAssigned(tags, 1, [name \in TagNames |-> <<>>])

\* buildHRP: 'ln' + network.bech32 + the amount; the bech32 of a string is
\* undefined, which prints as 'undefined'
buildHRP(network, satoshis, millisatoshis) ==
  <<108, 110>>
    \o (IF "bech32" \in DOMAIN network THEN network.bech32
        ELSE <<117, 110, 100, 101, 102, 105, 110, 101, 100>>)
    \o (IF Len(satoshis) = 0 /\ Len(millisatoshis) = 0 THEN <<>>
        ELSE encodeAmountFromMsat(
               IF Len(satoshis) > 0 THEN TimesThousand(satoshis[1])
               ELSE IF millisatoshis[1].type = "string" THEN parseInt(millisatoshis[1].val)
               ELSE millisatoshis[1].val))

\* intToMinWords: the loop test reads the number, n & 0x1f and n >>= 5 its
\* ToInt32
intToMinWords(num) ==
  LET RECURSIVE Loop(_, _)
      Loop(n, words) == IF n > 0 THEN Loop(Shr(n, 5), <<n % 32>> \o words) ELSE words
  IN  IF Len(num) = 0 THEN <<0>>
      ELSE Loop(Shr(BigToInt32(num), 5), <<BigToInt32(num) % 32>>)

\* the bytes of one hop of a route hint: [ok, err, bytes]
HopBytes(hop) ==
  LET hb == hexToBytes(hop.pubkey)
      sc == hexToBytes(hop.short_channel_id)
      Be(n, k) == [i \in 1..k |-> Shr(BigToInt32(n), 8 * (k - i)) % 256]
  IN  IF ~hb.ok THEN hb
      ELSE IF ~sc.ok THEN sc
      ELSE [ok |-> TRUE, err |-> "",
            bytes |-> hb.bytes \o sc.bytes \o Be(hop.fee_base_msat, 4)
                        \o Be(hop.fee_proportional_millionths, 4)
                        \o Be(hop.cltv_expiry_delta, 2)]

\* the words of a FeatureBits object
\* an encoder of feature bits that leaves out extra_bits
FeatureWords_NoExtra(fb) ==
  LET totalBits == fb.word_length * 5
      named == {2 * (k - 1) : k \in {k \in 1..10 : /\ Len(fb[FeatureNames[k]]) > 0
                                                   /\ fb[FeatureNames[k]][1].required}}
                 \cup {2 * (k - 1) + 1 : k \in {k \in 1..10 : /\ Len(fb[FeatureNames[k]]) > 0
                                                            /\ fb[FeatureNames[k]][1].supported}}
      bits == {i \in named : i < totalBits}
  IN  [w \in 1..fb.word_length |->
         LET Bit(b) == IF totalBits - 1 - ((w - 1) * 5 + (4 - b)) \in bits THEN Pow2(b) ELSE 0
         IN  Bit(0) + Bit(1) + Bit(2) + Bit(3) + Bit(4)]
FeatureWords(fb) ==
  LET totalBits == fb.word_length * 5
      named == {2 * (k - 1) : k \in {k \in 1..10 : /\ Len(fb[FeatureNames[k]]) > 0
                                                   /\ fb[FeatureNames[k]][1].required}}
                 \cup {2 * (k - 1) + 1 : k \in {k \in 1..10 : /\ Len(fb[FeatureNames[k]]) > 0
                                                            /\ fb[FeatureNames[k]][1].supported}}
      extra == IF Len(fb.extra_bits) = 0 THEN {}
               ELSE {fb.extra_bits[1].bits[i] : i \in 1..Len(fb.extra_bits[1].bits)}
      bits == {i \in named \cup extra : i < totalBits}
  IN  [w \in 1..fb.word_length |->
         LET Bit(b) == IF totalBits - 1 - ((w - 1) * 5 + (4 - b)) \in bits THEN Pow2(b) ELSE 0
         IN  Bit(0) + Bit(1) + Bit(2) + Bit(3) + Bit(4)]

\* encodeTagData: [ok, err, words]
encodeTagData(tag) ==
  LET Packed(b) == IF b.ok THEN [ok |-> TRUE, err |-> "", words |-> eightToFive(b.bytes)]
                   ELSE [ok |-> FALSE, err |-> b.err, words |-> <<>>]
      Words(w) == [ok |-> TRUE, err |-> "", words |-> w]
      hops == [i \in 1..Len(tag.data) |-> HopBytes(tag.data[i])]
      bad == {i \in 1..Len(tag.data) : ~hops[i].ok}
  IN  CASE tag.tagName \in {"payment_hash", "payment_secret", "purpose_commit_hash",
                            "payee", "metadata"} -> Packed(hexToBytes(tag.data))
        [] tag.tagName = "description" -> Words(eightToFive(stringToBytes(tag.data)))
        [] tag.tagName \in {"expire_time", "min_final_cltv_expiry"} ->
             Words(intToMinWords(tag.data))
        [] tag.tagName = "fallback_address" ->
             IF hexToBytes(tag.data.addressHash).ok
             THEN Words(<<tag.data.code>> \o eightToFive(hexToBytes(tag.data.addressHash).bytes))
             ELSE Packed(hexToBytes(tag.data.addressHash))
        [] tag.tagName = "route_hint" ->
             IF bad = {}
             THEN Words(eightToFive(Flatten([i \in 1..Len(hops) |-> hops[i].bytes],
                                            1, Len(hops))))
             ELSE Packed(hops[CHOOSE i \in bad : \A j \in bad : i <= j])
        [] tag.tagName = "feature_bits" -> Words(FeatureWords(tag.data))

\* encodeTag: [ok, err, words]
encodeTag(tag) ==
  LET Headed(d) ==
        IF ~d.ok THEN d
        ELSE [ok |-> TRUE, err |-> "",
              words |-> <<TAG_NAME_TO_CODE[tag.tagName], Shr(Len(d.words), 5) % 32,
                          Len(d.words) % 32>> \o d.words]
  IN  IF tag.tagName \notin DOMAIN TAG_NAME_TO_CODE
      THEN [ok |-> FALSE, err |-> "Unknown tag", words |-> <<>>]
      ELSE Headed(encodeTagData(tag))

\* encodeAllTags: the words of the tags in order, or the first error
encodeAllTags(tags) ==
  LET each == [i \in 1..Len(tags) |-> encodeTag(tags[i])]
      bad == {i \in 1..Len(tags) : ~each[i].ok}
  IN  IF bad = {}
      THEN [ok |-> TRUE, err |-> "",
            words |-> Flatten([i \in 1..Len(tags) |-> each[i].words], 1, Len(tags))]
      ELSE each[CHOOSE i \in bad : \A j \in bad : i <= j]

\* a + b on numbers
Plus(a, b) == DblOfInt(BigAdd(a, b))

\* what a call that throws gives
Thrown(e) == [ok |-> FALSE, err |-> e]

\* encode: the record, or the error.  now is what getCurrentTimestamp gives.
\* A nullable field of the record is <<>> for null.
Built(options, network, timestamp, tagsObj, timeExpireDate, hrp, stamp, expiry) ==
  IF ~stamp.ok \/ ~expiry.ok THEN Thrown("Invalid time value")
  ELSE [ok |-> TRUE, err |-> "", paymentRequest |-> <<>>, complete |-> FALSE,
        prefix |-> hrp, wordsTemp |-> <<>>, network |-> <<network>>,
        satoshis |-> options.satoshis,
        millisatoshis |->
          IF Len(options.millisatoshis) = 0 THEN <<>>
          ELSE IF options.millisatoshis[1].type = "string"
          THEN <<options.millisatoshis[1].val>>
          ELSE <<JsToString(options.millisatoshis[1].val)>>,
        timestamp |-> timestamp, timestampString |-> stamp.iso,
        timeExpireDate |-> timeExpireDate, timeExpireDateString |-> expiry.iso,
        payeeNodeKey |-> <<>>, signature |-> <<>>, recoveryFlag |-> 0,
        tags |-> options.tags, tagsObject |-> tagsObj]
\* encode, from the expiry on
EncodeExpiry(options, network, timestamp, tagsObj, timeExpireDate) ==
  Built(options, network, timestamp, tagsObj, timeExpireDate,
        buildHRP(network, options.satoshis, options.millisatoshis),
        toISOString(TimesThousand(timestamp)),
        toISOString(TimesThousand(timeExpireDate)))
\* encode, from the tags object on
EncodeTimes(options, network, timestamp, tagsObj) ==
  EncodeExpiry(options, network, timestamp, tagsObj,
               Plus(timestamp, IF Len(tagsObj.expire_time) = 0 THEN BigOf(3600)
                               ELSE tagsObj.expire_time[1]))
EncodeValid(options, now, valid) ==
  IF ~valid.ok THEN Thrown(valid.err)
  ELSE EncodeTimes(options,
                   IF Len(options.network) = 0 THEN NETWORKS.bitcoin
                   ELSE options.network[1],
                   IF Len(options.timestamp) = 0 THEN now ELSE options.timestamp[1],
                   buildTagsObject(options.tags))
encode(options, now) == EncodeValid(options, now, validateTags(options.tags))

\* a sign that leaves complete as it was
Signed_Incomplete(pr, privateKey, hrp, dataWords, sig) ==
  LET sigWords == eightToFive(sig.signature)
      padded == sigWords \o [i \in 1..(103 - Len(sigWords)) |-> 0]
  IN  IF ~sig.ok THEN Thrown(sig.err)
      ELSE [pr EXCEPT !.paymentRequest =
                        <<bech32Encode(hrp, dataWords \o padded \o <<sig.recoveryFlag>>)>>,
                      !.signature = bytesToHex(sig.signature),
                      !.recoveryFlag = sig.recoveryFlag,
                      !.payeeNodeKey = <<getPublicKey(privateKey).hex>>]
\* sign, from the signature on: sig is what signCompact gives
Signed(pr, privateKey, hrp, dataWords, sig) ==
  LET sigWords == eightToFive(sig.signature)
      padded == sigWords \o [i \in 1..(103 - Len(sigWords)) |-> 0]
  IN  IF ~sig.ok THEN Thrown(sig.err)
      ELSE [pr EXCEPT !.paymentRequest =
                        <<bech32Encode(hrp, dataWords \o padded \o <<sig.recoveryFlag>>)>>,
                      !.complete = TRUE,
                      !.signature = bytesToHex(sig.signature),
                      !.recoveryFlag = sig.recoveryFlag,
                      !.payeeNodeKey = <<getPublicKey(privateKey).hex>>]
\* sign, from the data words on
SignData(pr, privateKey, hrp, dataWords) ==
  Signed(pr, privateKey, hrp, dataWords,
         signCompact(sha256(concatBytes(stringToBytes(hrp), fiveToEight(dataWords, TRUE))),
                     privateKey))
\* sign, from the tag words on: tagWords is what encodeAllTags gives
SignTags(pr, privateKey, hrp, tagWords) ==
  IF ~tagWords.ok THEN Thrown(tagWords.err)
  ELSE SignData(pr, privateKey, hrp, intToWords(pr.timestamp, 7) \o tagWords.words)
\* sign: the signed record, or the error
sign(pr, privateKeyHex) ==
  IF ~hexToBytes(privateKeyHex).ok THEN Thrown(hexToBytes(privateKeyHex).err)
  ELSE SignTags(pr, hexToBytes(privateKeyHex).bytes,
                buildHRP(IF Len(pr.network) = 0 THEN NETWORKS.bitcoin ELSE pr.network[1],
                         pr.satoshis,
                         IF Len(pr.millisatoshis) = 0 THEN <<>>
                         ELSE <<[type |-> "string", val |-> pr.millisatoshis[1]]>>),
                encodeAllTags(pr.tags))

(***************************************************************************)
(* decode.ts                                                               *)
(***************************************************************************)
\* TAG_CODE_TO_NAME with the code 2 as a second code of description
TAG_CODE_TO_NAME_WithCode2 ==
  (1 :> "payment_hash") @@ (16 :> "payment_secret") @@ (13 :> "description")
    @@ (23 :> "purpose_commit_hash") @@ (19 :> "payee") @@ (6 :> "expire_time")
    @@ (24 :> "min_final_cltv_expiry") @@ (9 :> "fallback_address")
    @@ (3 :> "route_hint") @@ (5 :> "feature_bits") @@ (27 :> "metadata")
    @@ (2 :> "description")

TAG_CODE_TO_NAME ==
  (1 :> "payment_hash") @@ (16 :> "payment_secret") @@ (13 :> "description")
    @@ (23 :> "purpose_commit_hash") @@ (19 :> "payee") @@ (6 :> "expire_time")
    @@ (24 :> "min_final_cltv_expiry") @@ (9 :> "fallback_address")
    @@ (3 :> "route_hint") @@ (5 :> "feature_bits") @@ (27 :> "metadata")

\* the names of NETWORKS in the order in which parseHRP tries their
\* prefixes: by length of 'ln' + bech32, longest first, the sort being stable
PrefixOrder ==
  LET Before(i, j) ==
        \/ Len(NETWORKS[NetworkNames[i]].bech32) > Len(NETWORKS[NetworkNames[j]].bech32)
        \/ /\ Len(NETWORKS[NetworkNames[i]].bech32) = Len(NETWORKS[NetworkNames[j]].bech32)
           /\ i < j
      Rank(j) == Cardinality({i \in 1..Len(NetworkNames) : Before(i, j)}) + 1
  IN  [k \in 1..Len(NetworkNames) |->
         NetworkNames[CHOOSE j \in 1..Len(NetworkNames) : Rank(j) = k]]

\* parseHRP, from the matching prefix on: amount is what parseAmount gives
HrpParsed(hrp, net, amountStr, amount) ==
  IF Len(amountStr) > 0 /\ ~amount.ok THEN Thrown(amount.err)
  ELSE [ok |-> TRUE, err |-> "", prefix |-> hrp, network |-> net,
        amount |-> IF Len(amountStr) = 0 THEN <<>>
                   ELSE <<[satoshis |-> amount.satoshis,
                           millisatoshis |-> amount.millisatoshis]>>]
\* parseHRP: [ok, err, prefix, network, amount]
parseHRP(hrp) ==
  LET StartsWith(p) == Len(hrp) >= Len(p) /\ Slice(hrp, 0, Len(p)) = p
      Pfx(k) == <<108, 110>> \o NETWORKS[PrefixOrder[k]].bech32
      found == {k \in 1..Len(PrefixOrder) : StartsWith(Pfx(k))}
      first == CHOOSE k \in found : \A j \in found : k <= j
  IN  IF ~StartsWith(<<108, 110>>) THEN Thrown("Invalid prefix: must start with ln")
      ELSE IF found = {} THEN Thrown("Unknown network in prefix")
      ELSE HrpParsed(hrp, NETWORKS[PrefixOrder[first]],
                     Slice(hrp, Len(Pfx(first)), Len(hrp)),
                     IF Len(hrp) = Len(Pfx(first)) THEN [ok |-> TRUE, err |-> ""]
                     ELSE parseAmount(Slice(hrp, Len(Pfx(first)), Len(hrp))))

\* parseFallbackAddress, for words that are not empty
parseFallbackAddress(words) ==
  [code |-> words[1], address |-> <<>>,
   addressHash |-> bytesToHex(fiveToEightTrim(Slice(words, 1, Len(words))))]

\* parseRouteHint: the hops of 51 bytes
Hop(bytes, at) ==
  [pubkey |-> bytesToHex(Slice(bytes, at, at + 33)),
   short_channel_id |-> bytesToHex(Slice(bytes, at + 33, at + 41)),
   fee_base_msat |-> bytesToInt(Slice(bytes, at + 41, at + 45)),
   fee_proportional_millionths |-> bytesToInt(Slice(bytes, at + 45, at + 49)),
   cltv_expiry_delta |-> bytesToInt(Slice(bytes, at + 49, at + 51))]
Hops(bytes) == [h \in 1..(Len(bytes) \div 51) |-> Hop(bytes, 51 * (h - 1))]
parseRouteHint(words) == Hops(fiveToEightTrim(words))

\* a getBit that takes the first word as the lowest
getBit_FirstLowest(words, i) ==
  /\ i < Len(words) * 5
  /\ Shr(words[(i \div 5) + 1], i % 5) % 2 = 1
\* getBit of parseFeatureBits: bits[bitIndex] is bit b of words[w] for
\* bitIndex = totalBits - 1 - (w * 5 + (4 - b)), and false from totalBits on
getBit(words, i) ==
  /\ i < Len(words) * 5
  /\ Shr(words[((Len(words) * 5 - 1 - i) \div 5) + 1], 4 - ((Len(words) * 5 - 1 - i) % 5)) % 2 = 1

\* parseFeatureBits.  A feature that is undefined is <<>>.
parseFeatureBits(words) ==
  LET totalBits == Len(words) * 5
      feature(even) ==
        IF getBit(words, even) \/ getBit(words, even + 1)
        THEN <<[required |-> getBit(words, even),
                supported |-> getBit(words, even + 1) \/ getBit(words, even)]>>
        ELSE <<>>
      extra == {i \in 20..(totalBits - 1) : getBit(words, i)}
      RECURSIVE Ascending(_)
      Ascending(s) ==
        IF s = {} THEN <<>>
        ELSE LET least == CHOOSE i \in s : \A j \in s : i <= j
             IN  <<least>> \o Ascending(s \ {least})
  IN  [word_length |-> Len(words),
       option_data_loss_protect |-> feature(0), initial_routing_sync |-> feature(2),
       option_upfront_shutdown_script |-> feature(4), gossip_queries |-> feature(6),
       var_onion_optin |-> feature(8), gossip_queries_ex |-> feature(10),
       option_static_remotekey |-> feature(12), payment_secret |-> feature(14),
       basic_mpp |-> feature(16), option_support_large_channel |-> feature(18),
       extra_bits |-> <<[start_bit |-> 20, bits |-> Ascending(extra),
                         has_required |-> \E i \in extra : i % 2 = 0]>>]

\* parseTagData: [ok, err, tag], the tag being <<>> for null
parseTagData(name, words, dataLen) ==
  LET Tag(data) == [ok |-> TRUE, err |-> "", tag |-> <<[tagName |-> name, data |-> data]>>]
      Null == [ok |-> TRUE, err |-> "", tag |-> <<>>]
  IN  CASE name \in {"payment_hash", "payment_secret", "purpose_commit_hash"} ->
             IF dataLen # 52 THEN Null ELSE Tag(bytesToHex(fiveToEightTrim(words)))
        [] name = "payee" ->
             IF dataLen # 53 THEN Null ELSE Tag(bytesToHex(fiveToEightTrim(words)))
        [] name = "description" -> Tag(bytesToString(fiveToEightTrim(words)))
        [] name = "metadata" -> Tag(bytesToHex(fiveToEightTrim(words)))
        [] name \in {"expire_time", "min_final_cltv_expiry"} -> Tag(wordsToInt(words))
        [] name = "fallback_address" ->
             IF Len(words) = 0
             THEN [ok |-> FALSE, err |-> "Empty fallback address", tag |-> <<>>]
             ELSE Tag(parseFallbackAddress(words))
        [] name = "route_hint" -> Tag(parseRouteHint(words))
        [] name = "feature_bits" -> Tag(parseFeatureBits(words))
        [] OTHER -> Null

\* parseTags: [ok, err, tags].  TagsFrom is the while loop at position pos.
RECURSIVE TagsFrom(_, _, _)
Parsed(words, tagEnd, tags, parsed) ==
  IF ~parsed.ok THEN [ok |-> FALSE, err |-> parsed.err, tags |-> <<>>]
  ELSE TagsFrom(words, tagEnd, tags \o parsed.tag)
\* a walk that stops at an entry with too few words left, as at a short header
TagsFrom_Break(words, pos, tags) ==
  IF pos >= Len(words) \/ pos + 3 > Len(words)
       \/ pos + 3 + words[pos + 2] * 32 + words[pos + 3] > Len(words)
  THEN [ok |-> TRUE, err |-> "", tags |-> tags]
  ELSE IF words[pos + 1] \in DOMAIN TAG_CODE_TO_NAME
  THEN Parsed(words, pos + 3 + words[pos + 2] * 32 + words[pos + 3], tags,
              parseTagData(TAG_CODE_TO_NAME[words[pos + 1]],
                           Slice(words, pos + 3,
                                 pos + 3 + words[pos + 2] * 32 + words[pos + 3]),
                           words[pos + 2] * 32 + words[pos + 3]))
  ELSE TagsFrom(words, pos + 3 + words[pos + 2] * 32 + words[pos + 3], tags)
TagsFrom(words, pos, tags) ==
  IF pos >= Len(words) \/ pos + 3 > Len(words)
  THEN [ok |-> TRUE, err |-> "", tags |-> tags]
  ELSE IF pos + 3 + words[pos + 2] * 32 + words[pos + 3] > Len(words)
  THEN [ok |-> FALSE, err |-> "Tag data extends beyond data part", tags |-> <<>>]
  ELSE IF words[pos + 1] \in DOMAIN TAG_CODE_TO_NAME
  THEN Parsed(words, pos + 3 + words[pos + 2] * 32 + words[pos + 3], tags,
              parseTagData(TAG_CODE_TO_NAME[words[pos + 1]],
                           Slice(words, pos + 3,
                                 pos + 3 + words[pos + 2] * 32 + words[pos + 3]),
                           words[pos + 2] * 32 + words[pos + 3]))
  ELSE TagsFrom(words, pos + 3 + words[pos + 2] * 32 + words[pos + 3], tags)
parseTags(words) == TagsFrom(words, 0, <<>>)

\* resolvePayeeKey: <<hex>>, or <<>> for null
resolvePayeeKey(sigHash, sigBytes, recoveryFlag, tags) ==
  LET payee == {i \in 1..Len(tags) : tags[i].tagName = "payee"}
  IN  IF payee # {} THEN <<tags[CHOOSE i \in payee : \A j \in payee : i <= j].data>>
      ELSE recoverPublicKey(sigHash, sigBytes, recoveryFlag)

\* a buildTagsObject that keeps the data of the first tag of each name
buildTagsObject_decode_First(tags) ==
  [name \in TagNames |->
     LET at == {i \in 1..Len(tags) : tags[i].tagName = name}
     IN  IF at = {} THEN <<>> ELSE <<tags[CHOOSE i \in at : \A j \in at : i <= j].data>>]
\* buildTagsObject of decode.ts has the statements of the encoder's
buildTagsObject_decode(tags) == TagsAssigned(tags, 1, [name \in TagNames |-> <<>>])

\* decode, from the payee key on
Decoded(paymentRequest, h, timestamp, tags, sig, payeeNodeKey, tagsObject, timeExpireDate, stamp, expiry) ==
  IF ~stamp.ok \/ ~expiry.ok THEN Thrown("Invalid time value")
  ELSE [ok |-> TRUE, err |-> "", paymentRequest |-> <<paymentRequest>>,
        complete |-> TRUE, prefix |-> h.prefix, wordsTemp |-> <<>>,
        network |-> <<h.network>>,
        satoshis |-> IF Len(h.amount) = 0 THEN <<>> ELSE h.amount[1].satoshis,
        millisatoshis |-> IF Len(h.amount) = 0 THEN <<>> ELSE h.amount[1].millisatoshis,
        timestamp |-> timestamp, timestampString |-> stamp.iso,
        timeExpireDate |-> timeExpireDate, timeExpireDateString |-> expiry.iso,
        payeeNodeKey |-> payeeNodeKey, signature |-> bytesToHex(sig.bytes),
        recoveryFlag |-> sig.flag, tags |-> tags, tagsObject |-> tagsObject]
\* decode, from the expiry on
DecodeExpiry(paymentRequest, h, timestamp, tags, sig, payeeNodeKey, tagsObject, timeExpireDate) ==
  Decoded(paymentRequest, h, timestamp, tags, sig, payeeNodeKey, tagsObject,
          timeExpireDate, toISOString(TimesThousand(timestamp)),
          toISOString(TimesThousand(timeExpireDate)))
\* decode, from the tags object on
DecodeTimes(paymentRequest, h, timestamp, tags, sig, payeeNodeKey, tagsObject) ==
  DecodeExpiry(paymentRequest, h, timestamp, tags, sig, payeeNodeKey, tagsObject,
               Plus(timestamp, IF Len(tagsObject.expire_time) = 0 THEN BigOf(3600)
                               ELSE tagsObject.expire_time[1]))
\* decode, from the tags on: t is what parseTags gives
DecodeTags(paymentRequest, hrp, data, h, t, sigBytes, sigHash) ==
  IF ~t.ok THEN Thrown(t.err)
  ELSE DecodeTimes(paymentRequest, h, wordsToInt(Slice(data, 0, 7)), t.tags,
                   [bytes |-> sigBytes, flag |-> data[Len(data)]],
                   resolvePayeeKey(sigHash, sigBytes, data[Len(data)], t.tags),
                   buildTagsObject_decode(t.tags))
\* decode, from the data part on: h is what parseHRP gives
DecodeData(paymentRequest, hrp, data, h) ==
  IF ~h.ok THEN Thrown(h.err)
  ELSE IF Len(data) < 7 + 104 THEN Thrown("Payment request too short")
  ELSE DecodeTags(paymentRequest, hrp, data, h,
                  parseTags(Slice(data, 7, Len(data) - 104)),
                  fiveToEightTrim(Slice(data, Len(data) - 104, Len(data) - 1)),
                  sha256(concatBytes(stringToBytes(hrp),
                                     fiveToEight(Slice(data, 0, Len(data) - 104), TRUE))))
\* decode, from the words on: b is what bech32Decode gives
DecodeWords(paymentRequest, b) ==
  IF ~b.ok THEN Thrown(b.err)
  ELSE DecodeData(paymentRequest, b.hrp, b.data, parseHRP(b.hrp))
\* decode: the record, or the error
decode(paymentRequest) == DecodeWords(paymentRequest, bech32Decode(paymentRequest))
(***************************************************************************)
(* State.  Each group of variables is the frame of one kind of call; a     *)
(* specification runs the calls of one group and leaves the others idle.   *)
(***************************************************************************)
VARIABLES
  bitsIn, bitsWords, bitsOut, bitsPc,      \* eightToFive then fiveToEightTrim
  b32Hrp, b32Data, b32Str, b32Res, b32Pc,  \* bech32Encode then bech32Decode
  amtKind, amtNum, amtTok, amtBack, amtDec, amtPc,  \* the amount helpers
  encOpts, encPr, encPc,                   \* encode
  invOpts, invKey, invPr, invSigned, invDec, invWire, invDecWire, invPc,
                                           \* encode, sign, decode
  tagStream, tagExtra, tagOut, tagOutExtra, tagPc,  \* parseTags
  decIn, decOut, decPc,                    \* decode of a string
  tokIn, tokSat, tokDec, tokPc,            \* hrpToSat and decode of an amount token
  emMsat, emBy, emTok, emPc,               \* the three producers of an amount token
  recHash, recSig, recFlag, recStrict, recTried, recOut, recPc,  \* recoverPublicKey
  taskCall, taskPc, taskOut, signFrame, decodeFrame, networks,
                                           \* concurrent calls of sign and decode
  fbWords, fbObj, fbOut, fbPc,             \* parseFeatureBits and the encoder of feature_bits
  hrpNet, hrpTok, hrpIn, hrpOut, hrpDec, hrpPc
                                           \* parseHRP on a human-readable part

bitsVars == <<bitsIn, bitsWords, bitsOut, bitsPc>>
b32Vars == <<b32Hrp, b32Data, b32Str, b32Res, b32Pc>>
amtVars == <<amtKind, amtNum, amtTok, amtBack, amtDec, amtPc>>
encVars == <<encOpts, encPr, encPc>>
invVars == <<invOpts, invKey, invPr, invSigned, invDec, invWire, invDecWire, invPc>>
tagVars == <<tagStream, tagExtra, tagOut, tagOutExtra, tagPc>>
decVars == <<decIn, decOut, decPc>>
tokVars == <<tokIn, tokSat, tokDec, tokPc>>
emVars == <<emMsat, emBy, emTok, emPc>>
recVars == <<recHash, recSig, recFlag, recStrict, recTried, recOut, recPc>>
taskVars == <<taskCall, taskPc, taskOut, signFrame, decodeFrame, networks>>
fbVars == <<fbWords, fbObj, fbOut, fbPc>>
hrpVars == <<hrpNet, hrpTok, hrpIn, hrpOut, hrpDec, hrpPc>>
vars == <<bitsVars, b32Vars, amtVars, encVars, invVars, tagVars, decVars, tokVars, emVars,
         recVars, taskVars, fbVars, hrpVars>>

\* every group but g is idle, and stays as it is
IdleExcept(g) ==
  /\ IF g = "bits" THEN TRUE
     ELSE bitsIn = <<>> /\ bitsWords = <<>> /\ bitsOut = <<>> /\ bitsPc = "idle"
  /\ IF g = "b32" THEN TRUE
     ELSE /\ b32Hrp = <<>> /\ b32Data = <<>> /\ b32Str = <<>> /\ b32Res = <<>>
          /\ b32Pc = "idle"
  /\ IF g = "amt" THEN TRUE
     ELSE /\ amtKind = "idle" /\ amtNum = <<>> /\ amtTok = <<>> /\ amtBack = <<>>
          /\ amtDec = <<>> /\ amtPc = "idle"
  /\ IF g = "enc" THEN TRUE ELSE encOpts = <<>> /\ encPr = <<>> /\ encPc = "idle"
  /\ IF g = "inv" THEN TRUE
     ELSE /\ invOpts = <<>> /\ invKey = <<>> /\ invPr = <<>> /\ invSigned = <<>>
          /\ invDec = <<>> /\ invWire = <<>> /\ invDecWire = <<>> /\ invPc = "idle"
  /\ IF g = "tag" THEN TRUE
     ELSE /\ tagStream = <<>> /\ tagExtra = <<>> /\ tagOut = <<>> /\ tagOutExtra = <<>>
          /\ tagPc = "idle"
  /\ IF g = "dec" THEN TRUE ELSE decIn = <<>> /\ decOut = <<>> /\ decPc = "idle"
  /\ IF g = "tok" THEN TRUE
     ELSE tokIn = <<>> /\ tokSat = <<>> /\ tokDec = <<>> /\ tokPc = "idle"
  /\ IF g = "em" THEN TRUE
     ELSE emMsat = <<>> /\ emBy = "idle" /\ emTok = <<>> /\ emPc = "idle"
  /\ IF g = "rec" THEN TRUE
     ELSE /\ recHash = <<>> /\ recSig = <<>> /\ recFlag = 0 /\ recStrict = FALSE
          /\ recTried = <<>> /\ recOut = <<>> /\ recPc = "idle"
  /\ IF g = "task" THEN TRUE
     ELSE /\ taskCall = <<>> /\ taskPc = <<>> /\ taskOut = <<>> /\ signFrame = <<>>
          /\ decodeFrame = <<>> /\ networks = NETWORKS
  /\ IF g = "fb" THEN TRUE
     ELSE fbWords = <<>> /\ fbObj = <<>> /\ fbOut = <<>> /\ fbPc = "idle"
  /\ IF g = "hrp" THEN TRUE
     ELSE /\ hrpNet = "idle" /\ hrpTok = <<>> /\ hrpIn = <<>> /\ hrpOut = <<>>
          /\ hrpDec = <<>> /\ hrpPc = "idle"
UnchangedExcept(g) ==
  /\ IF g = "bits" THEN TRUE ELSE UNCHANGED bitsVars
  /\ IF g = "b32" THEN TRUE ELSE UNCHANGED b32Vars
  /\ IF g = "amt" THEN TRUE ELSE UNCHANGED amtVars
  /\ IF g = "enc" THEN TRUE ELSE UNCHANGED encVars
  /\ IF g = "inv" THEN TRUE ELSE UNCHANGED invVars
  /\ IF g = "tag" THEN TRUE ELSE UNCHANGED tagVars
  /\ IF g = "dec" THEN TRUE ELSE UNCHANGED decVars
  /\ IF g = "tok" THEN TRUE ELSE UNCHANGED tokVars
  /\ IF g = "em" THEN TRUE ELSE UNCHANGED emVars
  /\ IF g = "rec" THEN TRUE ELSE UNCHANGED recVars
  /\ IF g = "task" THEN TRUE ELSE UNCHANGED taskVars
  /\ IF g = "fb" THEN TRUE ELSE UNCHANGED fbVars
  /\ IF g = "hrp" THEN TRUE ELSE UNCHANGED hrpVars

\* all sequences over S of length at most n
SeqsUpTo(S, n) == UNION {[1..k -> S] : k \in 0..n}

(***************************************************************************)
(* SpecBits: a caller packs a byte sequence into 5-bit words and unpacks   *)
(* the words again.  The inputs are the short sequences over a few byte    *)
(* values and sequences of the lengths of a hash, a public key and a       *)
(* compact signature.                                                      *)
(***************************************************************************)
MaxBytes == 5
ByteInputs ==
  SeqsUpTo({0, 1, 128, 255}, MaxBytes)
    \cup {[i \in 1..n |-> (seed + 37 * i) % 256] : n \in {32, 33, 64}, seed \in {0, 200, 255}}

InitBits ==
  /\ bitsIn \in ByteInputs
  /\ bitsWords = <<>> /\ bitsOut = <<>> /\ bitsPc = "start"
  /\ IdleExcept("bits")

EightToFive ==
  /\ bitsPc = "start"
  /\ bitsWords' = eightToFive(bitsIn)
  /\ bitsPc' = "packed"
  /\ UNCHANGED <<bitsIn, bitsOut>> /\ UnchangedExcept("bits")

FiveToEightTrim ==
  /\ bitsPc = "packed"
  /\ bitsOut' = fiveToEightTrim(bitsWords)
  /\ bitsPc' = "done"
  /\ UNCHANGED <<bitsIn, bitsWords>> /\ UnchangedExcept("bits")

NextBits == EightToFive \/ FiveToEightTrim
SpecBits == InitBits /\ [][NextBits]_vars

(***************************************************************************)
(* SpecBech32: a caller encodes (hrp, data) and decodes the string.        *)
(***************************************************************************)
MaxWords == 3
LongWords == 100
\* "a", "bc", "ln", "lnbc", "a1b", "lntb20m", "lnbcrt2500u"
HrpInputs ==
  { <<97>>, <<98, 99>>, <<108, 110>>, <<108, 110, 98, 99>>, <<97, 49, 98>>,
    <<108, 110, 116, 98, 50, 48, 109>>,
    <<108, 110, 98, 99, 114, 116, 50, 53, 48, 48, 117>> }
WordInputs ==
  SeqsUpTo({0, 1, 16, 31}, MaxWords)
    \cup {<<w>> : w \in 0..31}
    \cup {[i \in 1..LongWords |-> (seed + 7 * i) % 32] : seed \in {0, 5}}

InitBech32 ==
  /\ b32Hrp \in HrpInputs
  /\ b32Data \in WordInputs
  /\ b32Str = <<>> /\ b32Res = <<>> /\ b32Pc = "start"
  /\ IdleExcept("b32")

Bech32Encode ==
  /\ b32Pc = "start"
  /\ b32Str' = bech32Encode(b32Hrp, b32Data)
  /\ b32Pc' = "encoded"
  /\ UNCHANGED <<b32Hrp, b32Data, b32Res>> /\ UnchangedExcept("b32")

Bech32Decode ==
  /\ b32Pc = "encoded"
  /\ b32Res' = <<bech32Decode(b32Str)>>
  /\ b32Pc' = "done"
  /\ UNCHANGED <<b32Hrp, b32Data, b32Str>> /\ UnchangedExcept("b32")

NextBech32 == Bech32Encode \/ Bech32Decode
SpecBech32 == InitBech32 /\ [][NextBech32]_vars

(***************************************************************************)
(* SpecAmount: a caller turns an amount into its string and parses the     *)
(* string back, or parses a string it was given with hrpToMillisat and     *)
(* with the decoder's parseAmount.                                         *)
(***************************************************************************)
MaxSmallAmount == 12
MaxPow10 == 9
MaxTokLen == 3
\* Number.MAX_SAFE_INTEGER
MaxSafeInteger == BigSub(BigShl(<<1>>, 53), <<1>>)
\* small amounts, round amounts, 967878534, and amounts whose product with
\* 10 or with 1000 is no double
AmountInputs ==
  {BigOf(i) : i \in 1..MaxSmallAmount}
    \cup {BigMulPow10(BigOf(d), k) : d \in {1, 21, 25}, k \in 1..MaxPow10}
    \cup { BigOf(967878534), MaxSafeInteger,
           BigAdd(BigDivSmall(BigShl(<<1>>, 56), 1000), <<2>>),
           BigAdd(BigDivSmall(BigShl(<<1>>, 54), 10), <<1>>) }
\* the strings over '0', '1', '5', 'a', 'm', 'p' of at most MaxTokLen
\* characters, and "2500u", "9678785340p", "9007199254741001p",
\* "90071992547409900p"
TokenInputs ==
  SeqsUpTo({48, 49, 53, 97, 109, 112}, MaxTokLen)
    \cup { <<50, 53, 48, 48, 117>>, <<57, 54, 55, 56, 55, 56, 53, 51, 52, 48, 112>>,
           <<57, 48, 48, 55, 49, 57, 57, 50, 53, 52, 55, 52, 49, 48, 48, 49, 112>>,
           <<57, 48, 48, 55, 49, 57, 57, 50, 53, 52, 55, 52, 48, 57, 57, 48, 48, 112>> }

InitAmount ==
  /\ \/ amtKind \in {"sat", "msat"} /\ amtNum \in AmountInputs
        /\ amtTok = <<>> /\ amtPc = "start"
     \/ amtKind = "token" /\ amtNum = <<>>
        /\ amtTok \in TokenInputs /\ amtPc = "token"
  /\ amtBack = <<>> /\ amtDec = <<>>
  /\ IdleExcept("amt")

SatToHrp ==
  /\ amtPc = "start" /\ amtKind = "sat"
  /\ amtTok' = satToHrp(amtNum)
  /\ amtPc' = "token"
  /\ UNCHANGED <<amtKind, amtNum, amtBack, amtDec>> /\ UnchangedExcept("amt")

\* the amount is passed as a number or as its decimal string
MillisatToHrp ==
  /\ amtPc = "start" /\ amtKind = "msat"
  /\ \E arg \in {amtNum, parseInt(BigToString(amtNum))} : amtTok' = millisatToHrp(arg)
  /\ amtPc' = "token"
  /\ UNCHANGED <<amtKind, amtNum, amtBack, amtDec>> /\ UnchangedExcept("amt")

HrpToSat ==
  /\ amtPc = "token" /\ amtKind = "sat" /\ amtBack = <<>>
  /\ amtBack' = <<hrpToSat(amtTok)>>
  /\ UNCHANGED <<amtKind, amtNum, amtTok, amtDec, amtPc>> /\ UnchangedExcept("amt")

HrpToMillisat ==
  /\ amtPc = "token" /\ amtKind \in {"msat", "token"} /\ amtBack = <<>>
  /\ amtBack' = <<hrpToMillisat(amtTok)>>
  /\ UNCHANGED <<amtKind, amtNum, amtTok, amtDec, amtPc>> /\ UnchangedExcept("amt")

ParseAmount ==
  /\ amtPc = "token" /\ amtKind \in {"msat", "token"} /\ amtDec = <<>>
  /\ amtDec' = <<parseAmount(amtTok)>>
  /\ UNCHANGED <<amtKind, amtNum, amtTok, amtBack, amtPc>> /\ UnchangedExcept("amt")

NextAmount == SatToHrp \/ MillisatToHrp \/ HrpToSat \/ HrpToMillisat \/ ParseAmount
SpecAmount == InitAmount /\ [][NextAmount]_vars

(***************************************************************************)
(* Inputs of the encoder.                                                  *)
(***************************************************************************)
\* the hexadecimal string of n bytes that start from seed
Hex(n, seed) == bytesToHex([i \in 1..n |-> (seed + 37 * i) % 256])
Tag(name, data) == [tagName |-> name, data |-> data]
\* an options object
Options(network, satoshis, millisatoshis, timestamp, tags) ==
  [network |-> network, satoshis |-> satoshis, millisatoshis |-> millisatoshis,
   timestamp |-> timestamp, tags |-> tags]
\* 2017-06-01T10:57:38Z, the timestamp of the examples of BOLT 11
ExampleTime == BigOf(1496314658)
\* what Date.now() / 1000 may give: 2023-11-14 and 2038-01-19 (2^31)
Clock == {BigOf(1700000000), BigShl(<<1>>, 31)}
\* a tag of each of the names that validateTags looks for, and one that it
\* does not look for; "coffee"
RequiredTags ==
  << Tag("payment_hash", Hex(32, 0)), Tag("payment_secret", Hex(32, 17)),
     Tag("description", <<99, 111, 102, 102, 101, 101>>),
     Tag("purpose_commit_hash", Hex(32, 5)), Tag("expire_time", BigOf(60)) >>
\* the tags of RequiredTags at the indices in keep, in order
RECURSIVE Kept(_, _, _)
Kept(tags, keep, i) ==
  IF i > Len(tags) THEN <<>>
  ELSE (IF i \in keep THEN <<tags[i]>> ELSE <<>>) \o Kept(tags, keep, i + 1)
\* 'bitcoin', 'testnet', 'bc', 'tb', 'bcrt', 'tbs', 'sb', 'unknown_net', 'BC', ''
NetworkStrings ==
  { <<98, 105, 116, 99, 111, 105, 110>>, <<116, 101, 115, 116, 110, 101, 116>>,
    <<98, 99>>, <<116, 98>>, <<98, 99, 114, 116>>, <<116, 98, 115>>, <<115, 98>>,
    <<117, 110, 107, 110, 111, 119, 110, 95, 110, 101, 116>>, <<66, 67>>, <<>> }
EncodeInputs ==
  { Options(network, satoshis, <<>>, timestamp, Kept(RequiredTags, keep, 1)) :
      network \in {<<>>, <<NETWORKS.bitcoin>>, <<NETWORKS.regtest>>}
                    \cup {<<[string |-> s]>> : s \in NetworkStrings},
      satoshis \in {<<>>, <<BigOf(1000)>>},
      timestamp \in {<<>>, <<ExampleTime>>, <<BigSub(BigShl(<<1>>, 35), <<1>>)>>},
      keep \in SUBSET (1..Len(RequiredTags)) }

(***************************************************************************)
(* SpecEncode: a caller encodes an options object.                         *)
(***************************************************************************)
InitEncode ==
  /\ encOpts \in EncodeInputs
  /\ encPr = <<>> /\ encPc = "start"
  /\ IdleExcept("enc")

\* now is the reading of the clock, which encode takes when the options
\* have no timestamp
Encode ==
  /\ encPc = "start"
  /\ \E now \in Clock : encPr' = encode(encOpts, now)
  /\ encPc' = "done"
  /\ UNCHANGED encOpts /\ UnchangedExcept("enc")

NextEncode == Encode
SpecEncode == InitEncode /\ [][NextEncode]_vars

(***************************************************************************)
(* SpecInvoice: a caller encodes an options object, signs the record with  *)
(* a private key, decodes the payment request, then spells the payment     *)
(* request in upper, lower and mixed case and decodes the three spellings. *)
(***************************************************************************)
\* two private keys
PrivateKeys == {Hex(32, 1), Hex(32, 200)}
\* a FeatureBits object of word_length words with the bits of required and
\* of supported below 20 set, as parseFeatureBits writes it
Features(word_length, required, supported) ==
  LET feature(even) ==
        IF even \in required \/ (even + 1) \in supported
        THEN <<[required |-> even \in required,
                supported |-> even \in required \/ (even + 1) \in supported]>>
        ELSE <<>>
  IN  [word_length |-> word_length,
       option_data_loss_protect |-> feature(0), initial_routing_sync |-> feature(2),
       option_upfront_shutdown_script |-> feature(4), gossip_queries |-> feature(6),
       var_onion_optin |-> feature(8), gossip_queries_ex |-> feature(10),
       option_static_remotekey |-> feature(12), payment_secret |-> feature(14),
       basic_mpp |-> feature(16), option_support_large_channel |-> feature(18),
       extra_bits |-> <<[start_bit |-> 20, bits |-> <<>>, has_required |-> FALSE]>>]
\* payment_hash, payment_secret and the description 'coffee'
BaseTags == Kept(RequiredTags, {1, 2, 3}, 1)
\* one tag of each kind that is not in BaseTags, a second description (empty)
\* and the description 'é'
MoreTags ==
  << Tag("purpose_commit_hash", Hex(32, 5)),
     Tag("payee", getPublicKey(hexToBytes(Hex(32, 1)).bytes).hex),
     Tag("expire_time", BigOf(60)), Tag("expire_time", <<>>),
     Tag("min_final_cltv_expiry", BigOf(144)),
     Tag("fallback_address", [code |-> 17, address |-> <<>>, addressHash |-> Hex(20, 3)]),
     Tag("route_hint",
         << [pubkey |-> Hex(33, 2), short_channel_id |-> Hex(8, 9),
             fee_base_msat |-> BigOf(1000), fee_proportional_millionths |-> BigOf(100),
             cltv_expiry_delta |-> BigOf(40)] >>),
     Tag("feature_bits", Features(3, {8, 14}, {})),
     Tag("feature_bits", Features(4, {}, {9, 15, 17})),
     Tag("metadata", Hex(4, 1)),
     Tag("description", <<>>), Tag("description", <<233>>) >>
\* tag lists with tags of one name: three descriptions, two payment hashes
\* and two payment secrets, and two expiry times around two final expiries
RepeatedTags ==
  << <<Tag("description", <<233>>)>> \o BaseTags \o <<Tag("description", <<>>)>>,
     <<Tag("payment_secret", Hex(32, 9)), Tag("payment_hash", Hex(32, 7))>> \o BaseTags,
     BaseTags \o << Tag("expire_time", BigOf(60)), Tag("min_final_cltv_expiry", BigOf(144)),
                    Tag("min_final_cltv_expiry", BigOf(10)), Tag("expire_time", BigOf(7200)) >> >>
\* the timestamps 2^31, 2^35 - 1, 2^31 - 1, 1 and 0, and none
Timestamps ==
  << <<BigShl(<<1>>, 31)>>, <<BigSub(BigShl(<<1>>, 35), <<1>>)>>,
     <<BigSub(BigShl(<<1>>, 31), <<1>>)>>, <<<<1>>>>, <<<<>>>>, <<>> >>
\* the amounts: none, 1 and 250000 satoshis, '1500' and 967878534
\* millisatoshis; each is <<satoshis, millisatoshis>>
Amounts ==
  << << <<>>, <<>> >>, << <<BigOf(1)>>, <<>> >>, << <<BigOf(250000)>>, <<>> >>,
     << <<>>, <<[type |-> "string", val |-> <<49, 53, 48, 48>>]>> >>,
     << <<>>, <<[type |-> "number", val |-> BigOf(967878534)]>> >> >>
\* the options: the timestamps with one tag list, the tag lists with one
\* network, amount and timestamp, then the networks and the amounts
InvoiceInputs ==
  [i \in 1..Len(Timestamps) |-> Options(<<>>, <<>>, <<>>, Timestamps[i], BaseTags)]
    \o <<Options(<<>>, <<BigOf(1000)>>, <<>>, <<ExampleTime>>, BaseTags)>>
    \o [i \in 1..Len(MoreTags) |->
          Options(<<>>, <<BigOf(1000)>>, <<>>, <<ExampleTime>>, Append(BaseTags, MoreTags[i]))]
    \o [i \in 1..Len(MoreTags) |->
          Options(<<>>, <<BigOf(1000)>>, <<>>, <<ExampleTime>>, <<MoreTags[i]>> \o BaseTags)]
    \o [i \in 1..Len(RepeatedTags) |->
          Options(<<>>, <<>>, <<>>, <<ExampleTime>>, RepeatedTags[i])]
    \o [i \in 1..Len(NetworkNames) |->
          Options(<<NETWORKS[NetworkNames[i]]>>, <<BigOf(1000)>>, <<>>, <<ExampleTime>>,
                  BaseTags)]
    \o [i \in 1..Len(Amounts) |->
          Options(<<NETWORKS.testnet>>, Amounts[i][1], Amounts[i][2], <<ExampleTime>>,
                  BaseTags)]

InitInvoice ==
  /\ \E i \in 1..Len(InvoiceInputs) : invOpts = InvoiceInputs[i]
  /\ invKey = <<>> /\ invPr = <<>> /\ invSigned = <<>> /\ invDec = <<>>
  /\ invWire = <<>> /\ invDecWire = <<>> /\ invPc = "start"
  /\ IdleExcept("inv")

InvEncode ==
  /\ invPc = "start"
  /\ \E now \in Clock : invPr' = encode(invOpts, now)
  /\ invPc' = "encoded"
  /\ UNCHANGED <<invOpts, invKey, invSigned, invDec, invWire, invDecWire>>
  /\ UnchangedExcept("inv")

InvSign ==
  /\ invPc = "encoded" /\ invPr.ok
  /\ \E key \in PrivateKeys : invKey' = key /\ invSigned' = sign(invPr, key)
  /\ invPc' = "signed"
  /\ UNCHANGED <<invOpts, invPr, invDec, invWire, invDecWire>>
  /\ UnchangedExcept("inv")

InvDecode ==
  /\ invPc = "signed" /\ invSigned.ok
  /\ invDec' = decode(invSigned.paymentRequest[1])
  /\ invPc' = "decoded"
  /\ UNCHANGED <<invOpts, invKey, invPr, invSigned, invWire, invDecWire>>
  /\ UnchangedExcept("inv")

\* the spelling of s with every stride-th character in upper case
Mixed(s, stride) ==
  [i \in 1..Len(s) |-> IF i % stride = 0 THEN toUpperCase(<<s[i]>>)[1] ELSE s[i]]
MaxStride == 4
Respell ==
  /\ invPc = "decoded"
  /\ \E stride \in 2..MaxStride :
       invWire' = [upper |-> toUpperCase(invSigned.paymentRequest[1]),
                   lower |-> toLowerCase(invSigned.paymentRequest[1]),
                   mixed |-> Mixed(invSigned.paymentRequest[1], stride)]
  /\ invPc' = "respelled"
  /\ UNCHANGED <<invOpts, invKey, invPr, invSigned, invDec, invDecWire>>
  /\ UnchangedExcept("inv")

DecodeWire ==
  /\ invPc = "respelled"
  /\ invDecWire' = [spelling \in DOMAIN invWire |-> decode(invWire[spelling])]
  /\ invPc' = "done"
  /\ UNCHANGED <<invOpts, invKey, invPr, invSigned, invDec, invWire>>
  /\ UnchangedExcept("inv")

NextInvoice == InvEncode \/ InvSign \/ InvDecode \/ Respell \/ DecodeWire
SpecInvoice == InitInvoice /\ [][NextInvoice]_vars

(***************************************************************************)
(* SpecTags: a caller parses a stream of tag words, and the stream with    *)
(* entries of unknown types inserted in it.                                *)
(***************************************************************************)
\* the type codes that are not assigned to a tag
UnknownCodes == (0..31) \ {1, 3, 5, 6, 9, 13, 16, 19, 23, 24, 27}
\* a complete entry: type, the two words of the length, and len data words
Entry(type, len) ==
  <<type, Shr(len, 5), len % 32>> \o [i \in 1..len |-> (type + 5 * i) % 32]
\* the pieces of a stream: a payment hash, a payment hash of 51 words (which
\* is dropped), a description, an entry of the unknown type 2, a header
\* whose data is missing, and a lone word
Pieces ==
  { Entry(1, 52), Entry(1, 51), Entry(13, 2), Entry(2, 1), <<13, 0, 9, 4>>, <<6>> }
MaxPieces == 2
TagStreams ==
  {Flatten(ps, 1, Len(ps)) : ps \in SeqsUpTo(Pieces, MaxPieces)}

\* the positions at which the walk of parseTags stands before an entry, and
\* the end of the stream when the walk reaches it
Boundaries(words) ==
  LET RECURSIVE From(_)
      From(pos) ==
        IF pos + 3 > Len(words) THEN {pos}
        ELSE IF pos + 3 + words[pos + 2] * 32 + words[pos + 3] > Len(words) THEN {pos}
        ELSE {pos} \cup From(pos + 3 + words[pos + 2] * 32 + words[pos + 3])
  IN  From(0)
\* the length of the data of the unknown entry that is inserted for a code
UnknownLen(code) == <<0, 2, 33>>[(code % 3) + 1]
\* words with an unknown entry inserted at each position of at: the codes
\* go up from code, one by one, from the last position to the first
RECURSIVE Inserted(_, _, _)
Inserted(words, at, code) ==
  IF at = {} THEN words
  ELSE LET last == CHOOSE p \in at : \A q \in at : q <= p
           next == CHOOSE c \in UnknownCodes :
                     \/ c > code /\ \A d \in UnknownCodes : d > code => c <= d
                     \/ (\A d \in UnknownCodes : d <= code) /\ \A d \in UnknownCodes : c <= d
       IN  Inserted(Slice(words, 0, last) \o Entry(code, UnknownLen(code))
                      \o Slice(words, last, Len(words)),
                    at \ {last}, next)

\* parseTags and the decoder's buildTagsObject over its tags
TagsOf(words) ==
  LET Of(t) == IF ~t.ok THEN Thrown(t.err)
               ELSE [ok |-> TRUE, err |-> "", tags |-> t.tags,
                     tagsObject |-> buildTagsObject_decode(t.tags)]
  IN  Of(parseTags(words))

InitTags ==
  /\ tagStream \in TagStreams
  /\ tagExtra = <<>> /\ tagOut = <<>> /\ tagOutExtra = <<>> /\ tagPc = "start"
  /\ IdleExcept("tag")

InsertUnknown ==
  /\ tagPc = "start"
  /\ \E at \in (SUBSET Boundaries(tagStream)) \ {{}}, code \in UnknownCodes :
       tagExtra' = Inserted(tagStream, at, code)
  /\ tagPc' = "inserted"
  /\ UNCHANGED <<tagStream, tagOut, tagOutExtra>> /\ UnchangedExcept("tag")

ParseTags ==
  /\ tagPc = "inserted"
  /\ tagOut' = TagsOf(tagStream)
  /\ tagOutExtra' = TagsOf(tagExtra)
  /\ tagPc' = "parsed"
  /\ UNCHANGED <<tagStream, tagExtra>> /\ UnchangedExcept("tag")

NextTags == InsertUnknown \/ ParseTags
SpecTags == InitTags /\ [][NextTags]_vars

(***************************************************************************)
(* SpecDecode: a caller decodes a string.  The strings are short strings   *)
(* over a few characters, bech32 strings with few or many data words under *)
(* several prefixes, a signed payment request, and these with a character  *)
(* replaced, removed or in upper case.                                     *)
(***************************************************************************)
MaxChars == 4
\* '1', 'l', 'n', 'q', 'b' (which is no character of CHARSET)
ShortInputs == SeqsUpTo({49, 108, 110, 113, 98}, MaxChars)
\* bech32 strings: the prefixes are 'lnbc', 'ln', 'x', 'lnbc1', 'lnxx' and
\* 'lntb1500n'; the data words are none, 110 and 111 words
WordCounts == {0, 7 + 103, 7 + 104}
SealedInputs ==
  { bech32Encode(hrp, [i \in 1..n |-> 0]) :
      hrp \in { <<108, 110, 98, 99>>, <<108, 110>>, <<120>>, <<108, 110, 98, 99, 49>>,
                <<108, 110, 120, 120>>, <<108, 110, 116, 98, 49, 53, 48, 48, 110>> },
      n \in WordCounts }
\* the payment request of 1000 satoshis at ExampleTime with BaseTags
SignedInput ==
  sign(encode(Options(<<>>, <<BigOf(1000)>>, <<>>, <<ExampleTime>>, BaseTags), ExampleTime),
       Hex(32, 1)).paymentRequest[1]
\* s with the character at index i (from 0) replaced by c, and without it
Replaced(s, i, c) == [j \in 1..Len(s) |-> IF j = i + 1 THEN c ELSE s[j]]
Removed(s, i) == Slice(s, 0, i) \o Slice(s, i + 1, Len(s))
\* a string with its last character or the character after its separator
\* replaced by 'b', by 'q' or by 'p', without its separator, without its
\* first character, and in upper case
Tampered(s) ==
  {Replaced(s, i, c) : i \in {Len(s) - 1, lastIndexOf(s, 49) + 1}, c \in {98, 113, 112}}
    \cup {Removed(s, lastIndexOf(s, 49)), Removed(s, 0), toUpperCase(s)}
DecodeInputs ==
  ShortInputs \cup SealedInputs \cup {SignedInput}
    \cup UNION {Tampered(s) : s \in SealedInputs \cup {SignedInput}}

InitDecode ==
  /\ decIn \in DecodeInputs
  /\ decOut = <<>> /\ decPc = "start"
  /\ IdleExcept("dec")

Decode ==
  /\ decPc = "start"
  /\ decOut' = decode(decIn)
  /\ decPc' = "done"
  /\ UNCHANGED decIn /\ UnchangedExcept("dec")

NextDecode == Decode
SpecDecode == InitDecode /\ [][NextDecode]_vars

(***************************************************************************)
(* SpecToken: a caller passes an amount token to hrpToSat, and decodes a   *)
(* payment request whose prefix is 'lnbc' and the token.  The payment      *)
(* request has the words of a timestamp and of a signature, all zero, and  *)
(* no tags: decode does not verify the signature.                          *)
(***************************************************************************)
\* the tokens of SpecAmount, and '10n', '10p', '1500n', '2500u', '20m',
\* '12345678901234570n'
AmountTokens ==
  TokenInputs
    \cup { <<49, 48, 110>>, <<49, 48, 112>>, <<49, 53, 48, 48, 110>>, <<50, 53, 48, 48, 117>>,
           <<50, 48, 109>>,
           <<49, 50, 51, 52, 53, 54, 55, 56, 57, 48, 49, 50, 51, 52, 53, 55, 48, 110>> }
BlankWords == [i \in 1..(7 + 104) |-> 0]
InvoiceOf(tok) == bech32Encode(<<108, 110, 98, 99>> \o tok, BlankWords)

InitToken ==
  /\ tokIn \in AmountTokens
  /\ tokSat = <<>> /\ tokDec = <<>> /\ tokPc = "start"
  /\ IdleExcept("tok")

TokenToSat ==
  /\ tokPc = "start"
  /\ tokSat' = <<hrpToSat(tokIn)>>
  /\ tokPc' = "parsed"
  /\ UNCHANGED <<tokIn, tokDec>> /\ UnchangedExcept("tok")

TokenDecode ==
  /\ tokPc = "parsed"
  /\ tokDec' = <<decode(InvoiceOf(tokIn))>>
  /\ tokPc' = "done"
  /\ UNCHANGED <<tokIn, tokSat>> /\ UnchangedExcept("tok")

NextToken == TokenToSat \/ TokenDecode
SpecToken == InitToken /\ [][NextToken]_vars

(***************************************************************************)
(* SpecEmit: a caller writes one amount of millisatoshis as a token with   *)
(* millisatToHrp, with satToHrp (a whole number of satoshis), or with the  *)
(* encoder's buildHRP, which gets the amount as satoshis, as a number of   *)
(* millisatoshis or as their decimal string.                               *)
(***************************************************************************)
\* the amounts of SpecAmount and their thousandfolds
EmitInputs == AmountInputs \cup {BigMulPow10(a, 3) : a \in AmountInputs}
\* the characters of a prefix after 'lnbc'
AfterLnbc(prefix) == Slice(prefix, 4, Len(prefix))

InitEmit ==
  /\ emMsat \in EmitInputs
  /\ emBy = "none" /\ emTok = <<>> /\ emPc = "start"
  /\ IdleExcept("em")

\* the amount is passed as a number, when it is one, or as its decimal string
EmitMillisatToHrp ==
  /\ emPc = "start"
  /\ \E arg \in ({emMsat} \cap {DblOfInt(emMsat)}) \cup {parseInt(BigToString(emMsat))} :
       emTok' = millisatToHrp(arg)
  /\ emBy' = "millisatToHrp" /\ emPc' = "done"
  /\ UNCHANGED emMsat /\ UnchangedExcept("em")

EmitSatToHrp ==
  /\ emPc = "start" /\ BigModSmall(emMsat, 1000) = 0
  /\ emTok' = satToHrp(BigDivSmall(emMsat, 1000))
  /\ emBy' = "satToHrp" /\ emPc' = "done"
  /\ UNCHANGED emMsat /\ UnchangedExcept("em")

\* the amount follows 'lnbc' in the prefix
EmitBuildHRP ==
  /\ emPc = "start"
  /\ \E form \in {"satoshis", "number", "string"} :
       /\ form = "satoshis" => BigModSmall(emMsat, 1000) = 0
       /\ form = "number" => emMsat = DblOfInt(emMsat)
       /\ emTok' = AfterLnbc(buildHRP(NETWORKS.bitcoin,
                             IF form = "satoshis" THEN <<BigDivSmall(emMsat, 1000)>> ELSE <<>>,
                             IF form = "number" THEN <<[type |-> "number", val |-> emMsat]>>
                             ELSE IF form = "string"
                             THEN <<[type |-> "string", val |-> BigToString(emMsat)]>>
                             ELSE <<>>))
  /\ emBy' = "buildHRP" /\ emPc' = "done"
  /\ UNCHANGED emMsat /\ UnchangedExcept("em")

NextEmit == EmitMillisatToHrp \/ EmitSatToHrp \/ EmitBuildHRP
SpecEmit == InitEmit /\ [][NextEmit]_vars

(***************************************************************************)
(* SpecWalk: a caller parses a stream of tag words that is made of whole   *)
(* entries of known and unknown types and of right and wrong lengths, of   *)
(* entries that claim more words than follow, and of one or two words      *)
(* that are no header.                                                     *)
(***************************************************************************)
\* the pieces of a stream
WalkPieces ==
  { Entry(1, 52), Entry(1, 51), Entry(16, 53), Entry(23, 52), Entry(19, 53), Entry(19, 52),
    Entry(13, 2), Entry(6, 2), Entry(2, 1), Entry(9, 0), Entry(9, 4),
    <<13, 0, 9, 4>>, <<1, 31, 31>>, <<6>>, <<6, 0>> }
MaxWalkPieces == 3
WalkStreams ==
  {Flatten(ps, 1, Len(ps)) : ps \in SeqsUpTo(WalkPieces, MaxWalkPieces)}

InitWalk ==
  /\ tagStream \in WalkStreams
  /\ tagExtra = <<>> /\ tagOut = <<>> /\ tagOutExtra = <<>> /\ tagPc = "start"
  /\ IdleExcept("tag")

WalkTags ==
  /\ tagPc = "start"
  /\ tagOut' = parseTags(tagStream)
  /\ tagPc' = "walked"
  /\ UNCHANGED <<tagStream, tagExtra, tagOutExtra>> /\ UnchangedExcept("tag")

NextWalk == WalkTags
SpecWalk == InitWalk /\ [][NextWalk]_vars

(***************************************************************************)
(* SpecRecover: recoverPublicKey, attempt by attempt.  The signature is    *)
(* one that signCompact made, or that signature with S replaced by N - S;  *)
(* the recovery flag is any of 0..3.  The provider is the one of the       *)
(* model, or a strict one that throws for a signature with S above N / 2:  *)
(* recoverPublicKey catches what an attempt throws.  recTried holds the    *)
(* signature and the recovery id of each call of the provider.             *)
(***************************************************************************)
\* the signature with S replaced by N - S
Mirrored(sig) ==
  Slice(sig, 0, 32) \o BigToBytes(BigSub(N, bytesToBigInt(Slice(sig, 32, 64))), 32)
IsHighS(sig) == BigLess(HALF_N, bytesToBigInt(Slice(sig, 32, Len(sig))))
HashSeeds == {3, 77, 140}
RecoverInputs ==
  { [hash |-> hexToBytes(Hex(32, seed)).bytes,
     sig |-> signCompact(hexToBytes(Hex(32, seed)).bytes, hexToBytes(key).bytes).signature] :
      seed \in HashSeeds, key \in PrivateKeys }
\* secp256k1.recoverPublicKey of a provider that may be strict
Provider(msgHash, signature, recovery, strict) ==
  IF strict /\ IsHighS(signature) THEN [ok |-> FALSE, bytes |-> <<>>]
  ELSE secpRecoverPublicKey(msgHash, signature, recovery)
\* the return value of an attempt: <<hex>>, or <<>> when it threw
PubOf(res) == IF res.ok THEN <<bytesToHex(res.bytes)>> ELSE <<>>

InitRecover ==
  /\ \E in \in RecoverInputs :
       /\ recHash = in.hash
       /\ recSig \in {in.sig, Mirrored(in.sig)}
  /\ recFlag \in 0..3 /\ recStrict \in BOOLEAN
  /\ recTried = <<>> /\ recOut = <<>> /\ recPc = "start"
  /\ IdleExcept("rec")

\* low S: one attempt with the flag as it is
RecoverLowS ==
  /\ recPc = "start" /\ ~IsHighS(recSig)
  /\ recTried' = <<[signature |-> recSig, recovery |-> recFlag]>>
  /\ recOut' = PubOf(Provider(recHash, recSig, recFlag, recStrict))
  /\ recPc' = "returned"
  /\ UNCHANGED <<recHash, recSig, recFlag, recStrict>> /\ UnchangedExcept("rec")

\* high S, the first try block
RecoverHighSFirst ==
  /\ recPc = "start" /\ IsHighS(recSig)
  /\ recTried' = <<[signature |-> recSig, recovery |-> BitXor(recFlag, 1)]>>
  /\ recOut' = PubOf(Provider(recHash, recSig, BitXor(recFlag, 1), recStrict))
  /\ recPc' = IF Provider(recHash, recSig, BitXor(recFlag, 1), recStrict).ok
              THEN "returned" ELSE "second"
  /\ UNCHANGED <<recHash, recSig, recFlag, recStrict>> /\ UnchangedExcept("rec")

\* high S, the second try block
RecoverHighSSecond ==
  /\ recPc = "second"
  /\ recTried' = Append(recTried, [signature |-> normalizeSig(recSig), recovery |-> recFlag])
  /\ recOut' = PubOf(Provider(recHash, normalizeSig(recSig), recFlag, recStrict))
  /\ recPc' = "returned"
  /\ UNCHANGED <<recHash, recSig, recFlag, recStrict>> /\ UnchangedExcept("rec")

NextRecover == RecoverLowS \/ RecoverHighSFirst \/ RecoverHighSSecond
SpecRecover == InitRecover /\ [][NextRecover]_vars

(***************************************************************************)
(* SpecEnvelope: a caller encodes and signs an options object; someone     *)
(* writes the payment request again with another last data word (the word  *)
(* of the recovery flag), with or without one more tag entry before the    *)
(* signature, and a checksum that fits, and the caller decodes that        *)
(* string.                                                                 *)
(***************************************************************************)
\* the payment request with the words of entry before its signature and
\* with its last data word replaced by word
Resealed(paymentRequest, entry, word) ==
  bech32Encode(bech32Decode(paymentRequest).hrp,
               Slice(bech32Decode(paymentRequest).data, 0,
                     Len(bech32Decode(paymentRequest).data) - 104)
                 \o entry
                 \o Slice(bech32Decode(paymentRequest).data,
                          Len(bech32Decode(paymentRequest).data) - 104,
                          Len(bech32Decode(paymentRequest).data) - 1)
                 \o <<word>>)
\* no entry, and expire_time entries of 60 and of 2^43 seconds
ExpiryEntries == {<<>>, <<6, 0, 2, 1, 28>>, <<6, 0, 9, 8, 0, 0, 0, 0, 0, 0, 0, 0>>}
EnvelopeInputs ==
  { Options(<<>>, <<>>, <<>>, <<ExampleTime>>, BaseTags),
    Options(<<NETWORKS.testnet>>, <<BigOf(250000)>>, <<>>, <<ExampleTime>>, BaseTags) }

InitEnvelope ==
  /\ invOpts \in EnvelopeInputs
  /\ invKey = <<>> /\ invPr = <<>> /\ invSigned = <<>> /\ invDec = <<>>
  /\ invWire = <<>> /\ invDecWire = <<>> /\ invPc = "start"
  /\ IdleExcept("inv")

Reseal ==
  /\ invPc = "signed" /\ invSigned.ok
  /\ \E word \in 0..31, entry \in ExpiryEntries :
       invWire' = [sealed |-> Resealed(invSigned.paymentRequest[1], entry, word)]
  /\ invPc' = "respelled"
  /\ UNCHANGED <<invOpts, invKey, invPr, invSigned, invDec, invDecWire>>
  /\ UnchangedExcept("inv")

NextEnvelope == InvEncode \/ InvSign \/ Reseal \/ DecodeWire
SpecEnvelope == InitEnvelope /\ [][NextEnvelope]_vars

(***************************************************************************)
(* SpecFixed: a caller encodes, signs and decodes options whose tag list   *)
(* has a hash, a secret or a payee key of some number of bytes, or a tag   *)
(* of a name that is none of the eleven.                                   *)
(***************************************************************************)
\* the names of the tags with a required number of words
FixedNames == <<"payment_hash", "payment_secret", "purpose_commit_hash", "payee">>
\* the numbers of bytes of the data: none, 20, 31, 32, 33
HashSizes == <<0, 20, 31, 32, 33>>
\* the tags of BaseTags of another name than name
Others(name) == SelectSeq(BaseTags, LAMBDA t : t.tagName # name)
\* a tag of each name with each size before the required tags of the other
\* names
FixedInputs ==
  [k \in 1..(Len(FixedNames) * Len(HashSizes)) |->
     Options(<<>>, <<>>, <<>>, <<ExampleTime>>,
             <<Tag(FixedNames[((k - 1) \div Len(HashSizes)) + 1],
                   Hex(HashSizes[((k - 1) % Len(HashSizes)) + 1], 40))>>
               \o Others(FixedNames[((k - 1) \div Len(HashSizes)) + 1]))]

\* a tag of the name 'unknown_tag', 'PAYEE' or '' before the required tags
\* and at two places among them
UnknownNames == <<"unknown_tag", "PAYEE", "">>
UnknownInputs ==
  [k \in 1..(3 * Len(UnknownNames)) |->
     Options(<<>>, <<>>, <<>>, <<ExampleTime>>,
             Slice(BaseTags, 0, (k - 1) % 3) \o <<Tag(UnknownNames[((k - 1) \div 3) + 1], Hex(2, 1))>>
               \o Slice(BaseTags, (k - 1) % 3, Len(BaseTags)))]

InitFixed ==
  /\ \E k \in 1..Len(FixedInputs \o UnknownInputs) : invOpts = (FixedInputs \o UnknownInputs)[k]
  /\ invKey = <<>> /\ invPr = <<>> /\ invSigned = <<>> /\ invDec = <<>>
  /\ invWire = <<>> /\ invDecWire = <<>> /\ invPc = "start"
  /\ IdleExcept("inv")

NextFixed == InvEncode \/ InvSign \/ InvDecode
SpecFixed == InitFixed /\ [][NextFixed]_vars

(***************************************************************************)
(* SpecTasks: independent tasks call sign and decode at the same time.  A  *)
(* call of sign runs to its await of signCompact, a call of decode to its  *)
(* await of resolvePayeeKey, and each goes on when it is resumed; a task   *)
(* may be dropped while it is suspended.  The locals of a call are in the  *)
(* frame of the call; networks is the table NETWORKS of the module.        *)
(***************************************************************************)
MaxTasks == 2
Tasks == 1..MaxTasks
\* the record of encode that the tasks sign, and its payment request
TaskRecord ==
  encode(Options(<<>>, <<BigOf(1000)>>, <<>>, <<ExampleTime>>, BaseTags), ExampleTime)
TaskRequest == sign(TaskRecord, Hex(32, 1)).paymentRequest[1]
\* 64 times '0'
ZeroKey == [i \in 1..64 |-> 48]
\* the calls: sign with a key, sign with a key that the provider rejects,
\* decode of a payment request, decode of its first 30 characters
Calls ==
  << [kind |-> "sign", pr |-> TaskRecord, key |-> Hex(32, 1)],
     [kind |-> "sign", pr |-> TaskRecord, key |-> ZeroKey],
     [kind |-> "decode", str |-> TaskRequest],
     [kind |-> "decode", str |-> Slice(TaskRequest, 0, 30)] >>

\* one frame for all calls, as of locals kept in the module
FrameOf_Static(t) == 1
\* the frame of a call: each call has its own
FrameOf(t) == t

\* sign, up to the call of signCompact: the locals, or the error
SignLocals(pr, privateKey, hrp, tagWords) ==
  IF ~tagWords.ok THEN Thrown(tagWords.err)
  ELSE [ok |-> TRUE, err |-> "", pr |-> pr, privateKey |-> privateKey, hrp |-> hrp,
        dataWords |-> intToWords(pr.timestamp, 7) \o tagWords.words,
        sigHash |-> sha256(concatBytes(stringToBytes(hrp),
                                       fiveToEight(intToWords(pr.timestamp, 7)
                                                     \o tagWords.words, TRUE)))]
SignStarted(pr, privateKeyHex) ==
  IF ~hexToBytes(privateKeyHex).ok THEN Thrown(hexToBytes(privateKeyHex).err)
  ELSE SignLocals(pr, hexToBytes(privateKeyHex).bytes,
                  buildHRP(IF Len(pr.network) = 0 THEN NETWORKS.bitcoin ELSE pr.network[1],
                           pr.satoshis,
                           IF Len(pr.millisatoshis) = 0 THEN <<>>
                           ELSE <<[type |-> "string", val |-> pr.millisatoshis[1]]>>),
                  encodeAllTags(pr.tags))

\* decode, up to the await of resolvePayeeKey: the locals, or the error
DecodeLocals(paymentRequest, data, h, t, sigBytes, sigHash) ==
  IF ~t.ok THEN Thrown(t.err)
  ELSE [ok |-> TRUE, err |-> "", paymentRequest |-> paymentRequest, h |-> h,
        timestamp |-> wordsToInt(Slice(data, 0, 7)), tags |-> t.tags,
        sig |-> [bytes |-> sigBytes, flag |-> data[Len(data)]],
        payeeNodeKey |-> resolvePayeeKey(sigHash, sigBytes, data[Len(data)], t.tags)]
DecodeParsed(paymentRequest, hrp, data, h) ==
  IF ~h.ok THEN Thrown(h.err)
  ELSE IF Len(data) < 7 + 104 THEN Thrown("Payment request too short")
  ELSE DecodeLocals(paymentRequest, data, h,
                    parseTags(Slice(data, 7, Len(data) - 104)),
                    fiveToEightTrim(Slice(data, Len(data) - 104, Len(data) - 1)),
                    sha256(concatBytes(stringToBytes(hrp),
                                       fiveToEight(Slice(data, 0, Len(data) - 104), TRUE))))
DecodeSplit(paymentRequest, b) ==
  IF ~b.ok THEN Thrown(b.err)
  ELSE DecodeParsed(paymentRequest, b.hrp, b.data, parseHRP(b.hrp))
DecodeStarted(paymentRequest) == DecodeSplit(paymentRequest, bech32Decode(paymentRequest))

InitTasks ==
  /\ \E c \in [Tasks -> 1..Len(Calls)] : taskCall = [t \in Tasks |-> Calls[c[t]]]
  /\ taskPc = [t \in Tasks |-> "start"]
  /\ taskOut = [t \in Tasks |-> <<>>]
  /\ signFrame = [t \in Tasks |-> <<>>]
  /\ decodeFrame = [t \in Tasks |-> <<>>]
  /\ networks = NETWORKS
  /\ IdleExcept("task")

\* a call that has started either threw (its promise is rejected with the
\* error) or is suspended with its locals in its frame
Suspended(t, frame, started) ==
  IF started.ok
  THEN /\ frame' = [frame EXCEPT ![FrameOf(t)] = <<started>>]
       /\ taskPc' = [taskPc EXCEPT ![t] = "awaiting"]
       /\ UNCHANGED taskOut
  ELSE /\ taskOut' = [taskOut EXCEPT ![t] = <<started>>]
       /\ taskPc' = [taskPc EXCEPT ![t] = "failed"]
       /\ UNCHANGED frame
\* a call that has finished returned a record or threw
Settled(t, result) ==
  /\ taskOut' = [taskOut EXCEPT ![t] = <<result>>]
  /\ taskPc' = [taskPc EXCEPT ![t] = IF result.ok THEN "done" ELSE "failed"]

SignBegin(t) ==
  /\ taskPc[t] = "start" /\ taskCall[t].kind = "sign"
  /\ Suspended(t, signFrame, SignStarted(taskCall[t].pr, taskCall[t].key))
  /\ UNCHANGED <<taskCall, decodeFrame, networks>> /\ UnchangedExcept("task")

SignResume(t) ==
  /\ taskPc[t] = "awaiting" /\ taskCall[t].kind = "sign"
  /\ Settled(t, Signed(signFrame[FrameOf(t)][1].pr, signFrame[FrameOf(t)][1].privateKey,
                       signFrame[FrameOf(t)][1].hrp, signFrame[FrameOf(t)][1].dataWords,
                       signCompact(signFrame[FrameOf(t)][1].sigHash,
                                   signFrame[FrameOf(t)][1].privateKey)))
  /\ UNCHANGED <<taskCall, signFrame, decodeFrame, networks>> /\ UnchangedExcept("task")

DecodeBegin(t) ==
  /\ taskPc[t] = "start" /\ taskCall[t].kind = "decode"
  /\ Suspended(t, decodeFrame, DecodeStarted(taskCall[t].str))
  /\ UNCHANGED <<taskCall, signFrame, networks>> /\ UnchangedExcept("task")

DecodeResume(t) ==
  /\ taskPc[t] = "awaiting" /\ taskCall[t].kind = "decode"
  /\ Settled(t, DecodeTimes(decodeFrame[FrameOf(t)][1].paymentRequest,
                            decodeFrame[FrameOf(t)][1].h,
                            decodeFrame[FrameOf(t)][1].timestamp,
                            decodeFrame[FrameOf(t)][1].tags, decodeFrame[FrameOf(t)][1].sig,
                            decodeFrame[FrameOf(t)][1].payeeNodeKey,
                            buildTagsObject_decode(decodeFrame[FrameOf(t)][1].tags)))
  /\ UNCHANGED <<taskCall, signFrame, decodeFrame, networks>> /\ UnchangedExcept("task")

\* the task of a suspended call is dropped, and the call never goes on
Cancel(t) ==
  /\ taskPc[t] = "awaiting"
  /\ taskPc' = [taskPc EXCEPT ![t] = "cancelled"]
  /\ UNCHANGED <<taskCall, taskOut, signFrame, decodeFrame, networks>>
  /\ UnchangedExcept("task")

NextTasks ==
  \E t \in Tasks :
    SignBegin(t) \/ SignResume(t) \/ DecodeBegin(t) \/ DecodeResume(t) \/ Cancel(t)
SpecTasks == InitTasks /\ [][NextTasks]_vars

(***************************************************************************)
(* SpecIntTags: a caller encodes, signs and decodes options with an        *)
(* expire_time or a min_final_cltv_expiry tag after the required tags.     *)
(***************************************************************************)
\* 0, 1, 31, 32, 60, 1023, 1024, 2^20, 2^31 - 1, 2^31, 2^31 + 33, 2^32,
\* 2^32 + 5 and 2^35 - 1
IntegerValues ==
  << <<>>, BigOf(1), BigOf(31), BigOf(32), BigOf(60), BigOf(1023), BigOf(1024),
     BigShl(<<1>>, 20), BigSub(BigShl(<<1>>, 31), <<1>>), BigShl(<<1>>, 31),
     BigAdd(BigShl(<<1>>, 31), BigOf(33)), BigShl(<<1>>, 32),
     BigAdd(BigShl(<<1>>, 32), BigOf(5)), BigSub(BigShl(<<1>>, 35), <<1>>) >>
IntegerNames == <<"expire_time", "min_final_cltv_expiry">>
IntegerInputs ==
  [k \in 1..(Len(IntegerNames) * Len(IntegerValues)) |->
     Options(<<>>, <<>>, <<>>, <<ExampleTime>>,
             Append(BaseTags, Tag(IntegerNames[((k - 1) % Len(IntegerNames)) + 1],
                                  IntegerValues[((k - 1) \div Len(IntegerNames)) + 1])))]

InitIntTags ==
  /\ \E k \in 1..Len(IntegerInputs) : invOpts = IntegerInputs[k]
  /\ invKey = <<>> /\ invPr = <<>> /\ invSigned = <<>> /\ invDec = <<>>
  /\ invWire = <<>> /\ invDecWire = <<>> /\ invPc = "start"
  /\ IdleExcept("inv")

NextIntTags == InvEncode \/ InvSign \/ InvDecode
SpecIntTags == InitIntTags /\ [][NextIntTags]_vars

(***************************************************************************)
(* SpecFeatures: a caller parses a list of feature words and encodes the   *)
(* FeatureBits object it gets, or encodes a FeatureBits object as the      *)
(* data of a feature_bits tag and parses the words it gets.  fbObj and     *)
(* fbOut hold an object in a one-element sequence.                         *)
(***************************************************************************)
MaxFeatureWords == 5
MaxSetBits == 2
\* the subsets of B of at most n elements
RECURSIVE SubsetsUpTo(_, _)
SubsetsUpTo(B, n) ==
  IF n = 0 THEN {{}}
  ELSE SubsetsUpTo(B, n - 1) \cup {S \cup {b} : S \in SubsetsUpTo(B, n - 1), b \in B}
\* the k words whose set bits are those of S, bit 0 being the lowest bit of
\* the last word
WordsOfBits(S, k) ==
  [w \in 1..k |->
     LET Value(b) == IF 5 * (k - w) + b \in S THEN Pow2(b) ELSE 0
     IN  Value(0) + Value(1) + Value(2) + Value(3) + Value(4)]
\* the lists of up to MaxFeatureWords words with up to MaxSetBits bits set,
\* and those with every bit set
FeatureWordInputs ==
  UNION {{WordsOfBits(S, k) : S \in SubsetsUpTo(0..(5 * k - 1), MaxSetBits)}
           \cup {[w \in 1..k |-> 31]} : k \in 0..MaxFeatureWords}
\* a FeatureBits object with at most one named feature, at bit even
OneFeature(word_length, even, pair, extra) ==
  LET feature(e) == IF e = even THEN <<pair>> ELSE <<>>
  IN  [word_length |-> word_length,
       option_data_loss_protect |-> feature(0), initial_routing_sync |-> feature(2),
       option_upfront_shutdown_script |-> feature(4), gossip_queries |-> feature(6),
       var_onion_optin |-> feature(8), gossip_queries_ex |-> feature(10),
       option_static_remotekey |-> feature(12), payment_secret |-> feature(14),
       basic_mpp |-> feature(16), option_support_large_channel |-> feature(18),
       extra_bits |-> extra]
\* extra_bits: undefined, without a bit, and with the bits [21], [22, 24],
\* [24, 22], [22] under has_required = false, and [3, 22]
ExtraInputs ==
  { <<>>, <<[start_bit |-> 20, bits |-> <<>>, has_required |-> FALSE]>>,
    <<[start_bit |-> 20, bits |-> <<21>>, has_required |-> FALSE]>>,
    <<[start_bit |-> 20, bits |-> <<22, 24>>, has_required |-> TRUE]>>,
    <<[start_bit |-> 20, bits |-> <<24, 22>>, has_required |-> TRUE]>>,
    <<[start_bit |-> 20, bits |-> <<22>>, has_required |-> FALSE]>>,
    <<[start_bit |-> 20, bits |-> <<3, 22>>, has_required |-> TRUE]>> }
FeatureObjectInputs ==
  { OneFeature(word_length, even, pair, extra) :
      word_length \in 0..MaxFeatureWords, even \in {2 * e : e \in 0..9},
      pair \in [required : BOOLEAN, supported : BOOLEAN], extra \in ExtraInputs }
    \cup { OneFeature(word_length, 0 - 2, <<>>, extra) :
             word_length \in 0..MaxFeatureWords, extra \in ExtraInputs }

InitFeatures ==
  /\ \/ fbWords \in FeatureWordInputs /\ fbObj = <<>> /\ fbPc = "words"
     \/ fbWords = <<>> /\ fbObj \in {<<f>> : f \in FeatureObjectInputs} /\ fbPc = "object"
  /\ fbOut = <<>>
  /\ IdleExcept("fb")

\* parseFeatureBits on the words of the caller
ParseWords ==
  /\ fbPc = "words"
  /\ fbObj' = <<parseFeatureBits(fbWords)>>
  /\ fbPc' = "parsed"
  /\ UNCHANGED <<fbWords, fbOut>> /\ UnchangedExcept("fb")
\* the encoder on the object that was parsed
EncodeParsed ==
  /\ fbPc = "parsed"
  /\ fbOut' = FeatureWords(fbObj[1])
  /\ fbPc' = "reencoded"
  /\ UNCHANGED <<fbWords, fbObj>> /\ UnchangedExcept("fb")
\* the encoder on the object of the caller
EncodeObject ==
  /\ fbPc = "object"
  /\ fbWords' = FeatureWords(fbObj[1])
  /\ fbPc' = "encoded"
  /\ UNCHANGED <<fbObj, fbOut>> /\ UnchangedExcept("fb")
\* parseFeatureBits on the words that were encoded
ParseEncoded ==
  /\ fbPc = "encoded"
  /\ fbOut' = <<parseFeatureBits(fbWords)>>
  /\ fbPc' = "reparsed"
  /\ UNCHANGED <<fbWords, fbObj>> /\ UnchangedExcept("fb")

NextFeatures == ParseWords \/ EncodeParsed \/ EncodeObject \/ ParseEncoded
SpecFeatures == InitFeatures /\ [][NextFeatures]_vars

(***************************************************************************)
(* SpecHrp: decode is called on a payment request whose human-readable     *)
(* part is 'ln', the prefix of a network and a token, or a string that     *)
(* names no network.  The data part is that of SpecToken.  hrpOut is what  *)
(* parseHRP gives for the human-readable part, hrpDec what decode returns. *)
(***************************************************************************)
\* the strings over '0', '1', '5', 'a', 'm', 'p' of fewer than MaxTokLen
\* characters, '10n', '10p', '1500n', '2500u', '20m', '12345678901234570n',
\* '90071992547409900p', 'rt', 's' and 'r'
HrpTokens ==
  SeqsUpTo({48, 49, 53, 97, 109, 112}, MaxTokLen - 1)
    \cup { <<49, 48, 110>>, <<49, 48, 112>>, <<49, 53, 48, 48, 110>>, <<50, 53, 48, 48, 117>>,
           <<50, 48, 109>>,
           <<49, 50, 51, 52, 53, 54, 55, 56, 57, 48, 49, 50, 51, 52, 53, 55, 48, 110>>,
           <<57, 48, 48, 55, 49, 57, 57, 50, 53, 52, 55, 52, 48, 57, 57, 48, 48, 112>>,
           <<114, 116>>, <<115>>, <<114>> }
\* 'bc', 'l', 'n', 'tb10n', 'xnbc', 'lxbc', 'nlbc', 'ln', 'lnb', 'lnt', 'lns',
\* 'lnc', 'lncb', 'lnxy', 'ln1', 'ln10n', 'lnbt', 'lnbs10n', 'lnlnbc'
OtherHrps ==
  { <<98, 99>>, <<108>>, <<110>>, <<116, 98, 49, 48, 110>>, <<120, 110, 98, 99>>,
    <<108, 120, 98, 99>>, <<110, 108, 98, 99>>, <<108, 110>>, <<108, 110, 98>>,
    <<108, 110, 116>>, <<108, 110, 115>>, <<108, 110, 99>>, <<108, 110, 99, 98>>,
    <<108, 110, 120, 121>>, <<108, 110, 49>>, <<108, 110, 49, 48, 110>>,
    <<108, 110, 98, 116>>, <<108, 110, 98, 115, 49, 48, 110>>,
    <<108, 110, 108, 110, 98, 99>> }

InitHrp ==
  /\ \/ \E k \in 1..Len(NetworkNames) :
          /\ hrpNet = NetworkNames[k] /\ hrpTok \in HrpTokens
          /\ hrpIn = <<108, 110>> \o NETWORKS[NetworkNames[k]].bech32 \o hrpTok
     \/ hrpNet = "none" /\ hrpTok = <<>> /\ hrpIn \in OtherHrps
  /\ hrpOut = <<>> /\ hrpDec = <<>> /\ hrpPc = "start"
  /\ IdleExcept("hrp")

\* parseHRP on the human-readable part
HrpParse ==
  /\ hrpPc = "start"
  /\ hrpOut' = <<parseHRP(hrpIn)>>
  /\ hrpPc' = "parsed"
  /\ UNCHANGED <<hrpNet, hrpTok, hrpIn, hrpDec>> /\ UnchangedExcept("hrp")
\* decode on a payment request with that human-readable part
HrpDecode ==
  /\ hrpPc = "parsed"
  /\ hrpDec' = <<decode(bech32Encode(hrpIn, BlankWords))>>
  /\ hrpPc' = "done"
  /\ UNCHANGED <<hrpNet, hrpTok, hrpIn, hrpOut>> /\ UnchangedExcept("hrp")

NextHrp == HrpParse \/ HrpDecode
SpecHrp == InitHrp /\ [][NextHrp]_vars

(***************************************************************************)
(* SpecPayee: encode, sign and decode of invoices with no, one or two      *)
(* payee tags.                                                             *)
(***************************************************************************)
\* the data of a payee tag: the public keys of the two private keys, 33
\* other bytes, and 32 bytes (an entry that the decoder drops)
PayeeData ==
  << getPublicKey(hexToBytes(Hex(32, 1)).bytes).hex,
     getPublicKey(hexToBytes(Hex(32, 200)).bytes).hex, Hex(33, 7), Hex(32, 7) >>
\* the payee tags of an invoice, by their place in PayeeData
PayeeChoices ==
  << <<>>, <<1>>, <<2>>, <<3>>, <<4>>,
     <<1, 1>>, <<1, 2>>, <<1, 3>>, <<2, 1>>, <<2, 2>>, <<2, 3>>, <<3, 1>>, <<3, 2>>, <<3, 3>>,
     <<4, 1>>, <<1, 4>> >>
PayeeTags(choice) == [i \in 1..Len(choice) |-> Tag("payee", PayeeData[choice[i]])]
\* the payee tags after the required tags, and before them
PayeeInputs ==
  [k \in 1..Len(PayeeChoices) |->
     Options(<<>>, <<>>, <<>>, <<ExampleTime>>, BaseTags \o PayeeTags(PayeeChoices[k]))]
    \o [k \in 1..Len(PayeeChoices) |->
          Options(<<>>, <<>>, <<>>, <<ExampleTime>>, PayeeTags(PayeeChoices[k]) \o BaseTags)]

InitPayee ==
  /\ \E k \in 1..Len(PayeeInputs) : invOpts = PayeeInputs[k]
  /\ invKey = <<>> /\ invPr = <<>> /\ invSigned = <<>> /\ invDec = <<>>
  /\ invWire = <<>> /\ invDecWire = <<>> /\ invPc = "start"
  /\ IdleExcept("inv")

NextPayee == InvEncode \/ InvSign \/ InvDecode
SpecPayee == InitPayee /\ [][NextPayee]_vars

(***************************************************************************)
(* SpecSizes: encode, sign and decode of invoices with a description, a    *)
(* metadata or a route_hint tag of several sizes.                          *)
(***************************************************************************)
\* a text of n characters 'j' (its words, read as tag entries, are
\* descriptions)
Text(n) == [i \in 1..n |-> 106]
\* a route hint of n hops
HopList(n) ==
  [i \in 1..n |->
     [pubkey |-> Hex(33, i), short_channel_id |-> Hex(8, i + 40),
      fee_base_msat |-> BigOf(1000 + i), fee_proportional_millionths |-> BigOf(100),
      cltv_expiry_delta |-> BigOf(40)]]
\* descriptions of 0, 1, 19, 20, 639 and 640 bytes (1023 and 1024 words),
\* metadata of 0, 1, 4, 639 and 640 bytes and route hints of 0, 1, 2, 12 and
\* 13 hops (980 and 1061 words)
SizedTags ==
  << Tag("description", Text(0)), Tag("description", Text(1)), Tag("description", Text(19)),
     Tag("description", Text(20)), Tag("description", Text(639)),
     Tag("description", Text(640)),
     Tag("metadata", Hex(0, 1)), Tag("metadata", Hex(1, 1)), Tag("metadata", Hex(4, 1)),
     Tag("metadata", Hex(639, 1)), Tag("metadata", Hex(640, 1)),
     Tag("route_hint", HopList(0)), Tag("route_hint", HopList(1)), Tag("route_hint", HopList(2)),
     Tag("route_hint", HopList(12)), Tag("route_hint", HopList(13)) >>
\* the tag after the required tags, and before them
SizedInputs ==
  [k \in 1..Len(SizedTags) |->
     Options(<<>>, <<>>, <<>>, <<ExampleTime>>, Append(BaseTags, SizedTags[k]))]
    \o [k \in 1..Len(SizedTags) |->
          Options(<<>>, <<>>, <<>>, <<ExampleTime>>, <<SizedTags[k]>> \o BaseTags)]

InitSizes ==
  /\ \E k \in 1..Len(SizedInputs) : invOpts = SizedInputs[k]
  /\ invKey = <<>> /\ invPr = <<>> /\ invSigned = <<>> /\ invDec = <<>>
  /\ invWire = <<>> /\ invDecWire = <<>> /\ invPc = "start"
  /\ IdleExcept("inv")

NextSizes == InvEncode \/ InvSign \/ InvDecode
SpecSizes == InitSizes /\ [][NextSizes]_vars

(***************************************************************************)
(* Claims.                                                                 *)
(***************************************************************************)
\* ceil(a / b)
CeilDiv(a, b) == (a + b - 1) \div b

\* the word values of the characters of str after its last '1'
DataWordsOf(str) ==
  LET sep == lastIndexOf(str, 49)
  IN  [i \in 1..(Len(str) - sep - 1) |-> indexOf(CHARSET, str[sep + 1 + i])]

\* C2: once encoded, the string is hrp, '1', then the data words and six more
\* characters of CHARSET, and the polymod of hrpExpand(hrp) followed by all
\* these words is 1; once decoded, the result is exactly (hrp, data), whatever
\* the length of the string.
C2_Bech32RoundTrip ==
  /\ b32Pc \in {"encoded", "done"} =>
       /\ Len(b32Str) = Len(b32Hrp) + 1 + Len(b32Data) + 6
       /\ Slice(b32Str, 0, Len(b32Hrp)) = b32Hrp
       /\ b32Str[Len(b32Hrp) + 1] = 49
       /\ Slice(DataWordsOf(b32Str), 0, Len(b32Data)) = b32Data
       /\ \A i \in 1..Len(DataWordsOf(b32Str)) : DataWordsOf(b32Str)[i] \in 0..31
       /\ polymod(hrpExpand(b32Hrp) \o DataWordsOf(b32Str)) = 1
  /\ b32Pc = "done" =>
       /\ b32Res[1].ok
       /\ b32Res[1].hrp = b32Hrp
       /\ b32Res[1].data = b32Data

\* a string of more than 90 characters has been encoded and decoded
C2_Witness == b32Pc = "done" /\ Len(b32Str) > 90 /\ b32Res[1].ok

\* C3: unpacking the packed words gives the bytes back exactly; the words are
\* ceil(8 * len / 5) values of 0..31 and, when 8 * len is no multiple of 5,
\* the last word holds the r = 8 * len mod 5 low bits of the last byte,
\* followed by 5 - r zero bits.
C3_BitPackRoundTrip ==
  LET n == Len(bitsIn)
      r == (8 * n) % 5
  IN  /\ bitsPc \in {"packed", "done"} =>
           /\ Len(bitsWords) = CeilDiv(8 * n, 5)
           /\ \A i \in 1..Len(bitsWords) : bitsWords[i] \in 0..31
           /\ r > 0 => bitsWords[Len(bitsWords)] = (bitsIn[n] % Pow2(r)) * Pow2(5 - r)
           /\ n = 32 => Len(bitsWords) = 52
           /\ n = 33 => Len(bitsWords) = 53
           /\ n = 64 => Len(bitsWords) = 103
      /\ bitsPc = "done" => bitsOut = bitsIn

\* 64 bytes went through 103 words and came back, the accumulator having
\* overflowed 32 bits on the way
C3_Witness ==
  bitsPc = "done" /\ Len(bitsIn) = 64 /\ Len(bitsWords) = 103 /\ bitsIn[64] % 2 = 1

\* the amount grammar: digits without a leading zero (a single 0 apart), then
\* at most one of m, u, n, p, and digits that end in 0 before a p
TokenDigits(tok) ==
  IF Len(tok) > 0 /\ tok[Len(tok)] \in {109, 117, 110, 112} THEN SubSeq(tok, 1, Len(tok) - 1) ELSE tok
InGrammar(tok) ==
  LET digits == TokenDigits(tok)
  IN  /\ Len(digits) > 0
      /\ \A i \in 1..Len(digits) : digits[i] \in 48..57
      /\ Len(digits) > 1 => digits[1] # 48
      /\ (Len(tok) > Len(digits) /\ tok[Len(tok)] = 112) => digits[Len(digits)] = 48

\* C4: the string of a positive satoshi count parses back with hrpToSat to
\* that count and the string of a positive millisatoshi count parses back
\* with hrpToMillisat to that count, without an error; the digits of a
\* produced pico string end in 0.
C4_AmountRoundTrip ==
  /\ (amtKind \in {"sat", "msat"} /\ amtPc = "token") =>
       (amtTok[Len(amtTok)] = 112 => amtTok[Len(amtTok) - 1] = 48)
  /\ (amtKind \in {"sat", "msat"} /\ amtBack # <<>>) =>
       amtBack[1].ok /\ amtBack[1].str = BigToString(amtNum)

\* C10: hrpToMillisat and parseAmount accept a string exactly when it is in
\* the grammar, and then give the same millisatoshis.
C10_AmountGrammar ==
  /\ (amtKind = "token" /\ amtBack # <<>>) => (amtBack[1].ok <=> InGrammar(amtTok))
  /\ (amtKind = "token" /\ amtDec # <<>>) => (amtDec[1].ok <=> InGrammar(amtTok))
  /\ (amtKind = "token" /\ amtBack # <<>> /\ amtDec # <<>> /\ amtBack[1].ok) =>
       amtDec[1].millisatoshis = <<amtBack[1].str>>

\* two tag lists with the same names and the same data in the same order
SameTags(a, b) ==
  /\ Len(a) = Len(b)
  /\ \A i \in 1..Len(a) : a[i].tagName = b[i].tagName /\ a[i].data = b[i].data
\* two tags objects with the same data under each name
SameTagsObject(a, b) ==
  \A name \in TagNames :
    /\ Len(a[name]) = Len(b[name])
    /\ Len(a[name]) > 0 => a[name][1] = b[name][1]
\* the amount of an options object and of a record in millisatoshis:
\* <<msat>>, or <<>> without an amount
AmountOfOptions(options) ==
  IF Len(options.satoshis) > 0 THEN <<BigMulSmall(options.satoshis[1], 1000)>>
  ELSE IF Len(options.millisatoshis) = 0 THEN <<>>
  ELSE IF options.millisatoshis[1].type = "string"
  THEN <<DecimalValue(options.millisatoshis[1].val)>>
  ELSE <<options.millisatoshis[1].val>>
AmountOfRecord(record) ==
  IF Len(record.millisatoshis) = 0 THEN <<>> ELSE <<DecimalValue(record.millisatoshis[1])>>

\* C1: the record decoded from the payment request of a signed record has
\* the network, the amount, the timestamp and the tags (names and data, in
\* order) that were encoded, and its payeeNodeKey is the compressed public
\* key of the signing key.
C1_InvoiceRoundTrip ==
  invPc \in {"decoded", "respelled", "done"} =>
    /\ invDec.ok
    /\ invDec.network = invPr.network
    /\ AmountOfRecord(invDec) = AmountOfOptions(invOpts)
    /\ invDec.timestamp = invPr.timestamp
    /\ SameTags(invDec.tags, invOpts.tags)
    /\ invDec.payeeNodeKey = <<getPublicKey(hexToBytes(invKey).bytes).hex>>

\* a record without its paymentRequest
OtherFields(record) == [f \in (DOMAIN record) \ {"paymentRequest"} |-> record[f]]

\* C5 as stated: the upper-case and the lower-case spelling of a payment
\* request decode to equal records, and a mixed-case spelling decodes too.
C5_CaseInsensitive ==
  invPc = "done" =>
    /\ invDecWire.upper.ok /\ invDecWire.lower.ok /\ invDecWire.mixed.ok
    /\ invDecWire.upper = invDecWire.lower

\* C5 as amended: the upper-case, the lower-case and a mixed-case spelling
\* of a payment request all decode, to records that are equal in every field
\* but paymentRequest, which is the spelling that was passed.
C5_CaseInsensitiveFields ==
  invPc = "done" =>
    /\ invDecWire.upper.ok /\ invDecWire.lower.ok /\ invDecWire.mixed.ok
    /\ OtherFields(invDecWire.upper) = OtherFields(invDecWire.lower)
    /\ OtherFields(invDecWire.mixed) = OtherFields(invDecWire.lower)
    /\ invDecWire.upper.paymentRequest = <<invWire.upper>>
    /\ invDecWire.lower.paymentRequest = <<invWire.lower>>
    /\ invDecWire.mixed.paymentRequest = <<invWire.mixed>>

\* three different spellings of a payment request with tags have been decoded
C5_Witness ==
  /\ invPc = "done" /\ invDecWire.upper.ok /\ Len(invDecWire.upper.tags) > 3
  /\ invWire.upper # invWire.lower /\ invWire.mixed # invWire.lower
  /\ invWire.mixed # invWire.upper

\* C6: when a stream of tag words parses, the stream with complete entries
\* of unknown type codes inserted at tag boundaries parses too, to the same
\* tags in the same order and to the same tags object.
C6_UnknownEntriesSkipped ==
  (tagPc = "parsed" /\ tagOut.ok) =>
    /\ tagOutExtra.ok
    /\ SameTags(tagOutExtra.tags, tagOut.tags)
    /\ SameTagsObject(tagOutExtra.tagsObject, tagOut.tagsObject)

\* entries of unknown types, one of them of more than 31 words, have been
\* inserted at more than one boundary of a stream that holds tags
C6_Witness ==
  /\ tagPc = "parsed" /\ tagOut.ok /\ Len(tagOut.tags) > 1
  /\ Len(tagExtra) > Len(tagStream) + 3 + 33 + 3

\* whether the options of the encoder have a tag of one of the names
HasTag(names) == \E i \in 1..Len(encOpts.tags) : encOpts.tags[i].tagName \in names
RequiredPresent ==
  /\ HasTag({"payment_hash"}) /\ HasTag({"payment_secret"})
  /\ HasTag({"description", "purpose_commit_hash"})

NamedNetworks ==
  (<<98, 105, 116, 99, 111, 105, 110>> :> "bitcoin") @@ (<<98, 99>> :> "bitcoin")
    @@ (<<116, 98>> :> "testnet") @@ (<<98, 99, 114, 116>> :> "regtest")
    @@ (<<116, 98, 115>> :> "signet")
\* 'unknown_net', 'BC' and ''
OtherNetworks ==
  {<<117, 110, 107, 110, 111, 119, 110, 95, 110, 101, 116>>, <<66, 67>>, <<>>}
\* the record has the predefined network net and its prefix, with the amount
ResolvedTo(net) ==
  /\ encPr.ok
  /\ "bech32" \in DOMAIN encPr.network[1]
  /\ encPr.network[1].bech32 = net.bech32
  /\ encPr.prefix = <<108, 110>> \o net.bech32
                      \o (IF Len(encOpts.satoshis) = 0 THEN <<>>
                          ELSE satToHrp(encOpts.satoshis[1]))

\* C8: with the required tags, encode gives the record of the predefined
\* network for a network string that names one, throws Unknown network for
\* another string, and takes bitcoin without a network option.
C8_NetworkResolved ==
  (encPc = "done" /\ RequiredPresent) =>
    IF Len(encOpts.network) = 0 THEN ResolvedTo(NETWORKS.bitcoin)
    ELSE IF "string" \notin DOMAIN encOpts.network[1] THEN ResolvedTo(encOpts.network[1])
    ELSE IF encOpts.network[1].string \in DOMAIN NamedNetworks
    THEN ResolvedTo(NETWORKS[NamedNetworks[encOpts.network[1].string]])
    ELSE encOpts.network[1].string \in OtherNetworks =>
           ~encPr.ok /\ encPr.err = "Unknown network"

\* C9: decode throws, with the error of the first test that fails, when the
\* lower-cased input has no '1', when its last '1' is its first character,
\* when fewer than 6 characters follow it, when one of them is no character
\* of CHARSET, when the polymod of the prefix and the words is not 1, and
\* when fewer than 7 + 104 words precede the checksum.
C9_StructuralErrors ==
  LET input == toLowerCase(decIn)
      sep == lastIndexOf(input, 49)
      words == DataWordsOf(input)
      valid == \A i \in 1..Len(words) : words[i] # -1
      sealed == polymod(hrpExpand(Slice(input, 0, sep)) \o words) = 1
      Throws(e) == ~decOut.ok /\ decOut.err = e
  IN  decPc = "done" =>
        /\ sep = -1 => Throws("No separator character found")
        /\ sep = 0 => Throws("Empty HRP")
        /\ (sep > 0 /\ Len(words) < 6) => Throws("Checksum too short")
        /\ (sep > 0 /\ Len(words) >= 6 /\ ~valid) => Throws("Invalid bech32 character")
        /\ (sep > 0 /\ Len(words) >= 6 /\ valid /\ ~sealed) => Throws("Invalid checksum")
        /\ (sep > 0 /\ Len(words) >= 6 /\ valid /\ sealed /\ Len(words) - 6 < 7 + 104) =>
             /\ ~decOut.ok
             /\ parseHRP(Slice(input, 0, sep)).ok => decOut.err = "Payment request too short"
        /\ (sep = -1 \/ sep = 0 \/ Len(words) < 6 \/ ~valid \/ ~sealed
              \/ Len(words) - 6 < 7 + 104) => ~decOut.ok

\* a string with a checksum and 110 words has been rejected as too short
C9_Witness ==
  /\ decPc = "done" /\ ~decOut.ok /\ decOut.err = "Payment request too short"
  /\ Len(DataWordsOf(toLowerCase(decIn))) = 110 + 6

\* the millisatoshis that a token of the grammar denotes: its digits times
\* 10^11 without a suffix, 10^8 for m, 10^5 for u, 100 for n, and a tenth of
\* its digits for p
TokenMsat(tok) ==
  LET digits == DecimalValue(TokenDigits(tok))
  IN  IF Len(tok) = Len(TokenDigits(tok)) THEN BigMulPow10(digits, 11)
      ELSE IF tok[Len(tok)] = 109 THEN BigMulPow10(digits, 8)
      ELSE IF tok[Len(tok)] = 117 THEN BigMulPow10(digits, 5)
      ELSE IF tok[Len(tok)] = 110 THEN BigMulPow10(digits, 2)
      ELSE BigDivSmall(digits, 10)

\* C11: a payment request whose token denotes msat millisatoshis decodes
\* with millisatoshis the decimal string of msat and with satoshis msat / 1000
\* when msat is a multiple of 1000, null when it is not; a payment request
\* without a token decodes with both null; and hrpToSat throws for a token
\* of the grammar exactly when msat is no multiple of 1000.
C11_WholeSatoshi ==
  /\ (tokPc = "done" /\ Len(tokIn) > 0 /\ tokDec[1].ok) =>
       /\ tokDec[1].millisatoshis = <<BigToString(TokenMsat(tokIn))>>
       /\ tokDec[1].satoshis =
            IF BigModSmall(TokenMsat(tokIn), 1000) = 0
            THEN <<BigDivSmall(TokenMsat(tokIn), 1000)>> ELSE <<>>
  /\ (tokPc = "done" /\ Len(tokIn) = 0) =>
       tokDec[1].ok /\ tokDec[1].millisatoshis = <<>> /\ tokDec[1].satoshis = <<>>
  /\ (tokPc \in {"parsed", "done"} /\ InGrammar(tokIn)) =>
       (tokSat[1].ok <=> BigModSmall(TokenMsat(tokIn), 1000) = 0)


\* the unit of a suffix in tenths of a millisatoshi: 10^9, 10^6, 10^3, 1
SuffixExp(suffix) == IF suffix = 109 THEN 9 ELSE IF suffix = 117 THEN 6 ELSE IF suffix = 110 THEN 3 ELSE 0
\* whether the unit of the suffix divides msat
UnitDivides(msat, suffix) ==
  suffix = 112 \/ BigMulPow10(BigDivPow10(msat, SuffixExp(suffix) - 1), SuffixExp(suffix) - 1) = msat
\* the token of the rule: the first suffix of m, u, n, p whose unit divides
\* msat, after the quotient
RuleToken(msat) ==
  LET suffix == IF UnitDivides(msat, 109) THEN 109 ELSE IF UnitDivides(msat, 117) THEN 117
                ELSE IF UnitDivides(msat, 110) THEN 110 ELSE 112
  IN  Append(BigToString(IF suffix = 112 THEN BigMulPow10(msat, 1)
                         ELSE BigDivPow10(msat, SuffixExp(suffix) - 1)), suffix)

\* C12: millisatToHrp, satToHrp (of msat / 1000) and the encoder's buildHRP
\* all write a positive amount of millisatoshis as the quotient by the first
\* unit among m, u, n that divides it, followed by that suffix, and as ten
\* times the amount followed by p when none divides it.
C12_MsatToToken == emPc = "done" => emTok = RuleToken(emMsat)

\* the lengths of the tokens of the grammar that denote msat: the quotient
\* by 10^11 without a suffix, the quotients by 10^8, 10^5 and 10^2 with m, u
\* and n, ten times msat with p
DividesPow10(msat, k) == BigMulPow10(BigDivPow10(msat, k), k) = msat
TokenLengths(msat) ==
  (IF DividesPow10(msat, 11) THEN {Len(BigToString(BigDivPow10(msat, 11)))} ELSE {})
    \cup {Len(BigToString(BigDivPow10(msat, k))) + 1 : k \in {j \in {8, 5, 2} : DividesPow10(msat, j)}}
    \cup {Len(BigToString(BigMulPow10(msat, 1))) + 1}

\* C13: the token that millisatToHrp and the encoder's buildHRP write for an
\* amount is a shortest token of the grammar for that amount: no token that
\* denotes the same millisatoshis has fewer characters.
C13_ShortestForm ==
  (emPc = "done" /\ emBy \in {"millisatToHrp", "buildHRP"}) =>
    \A n \in TokenLengths(emMsat) : Len(emTok) <= n

\* an unsigned record: not complete, the signature empty, no payee key and
\* no payment request
IsUnsigned(r) ==
  /\ ~r.complete /\ r.signature = <<>> /\ r.payeeNodeKey = <<>> /\ r.paymentRequest = <<>>
\* a record signed with the private key: complete, a signature of 128 hex
\* characters, a recovery flag, the public key of the private key, and a
\* payment request that is the bech32 string of the record's prefix
IsSignedBy(r, privateKeyHex) ==
  /\ r.complete /\ Len(r.signature) = 128 /\ r.recoveryFlag \in 0..3
  /\ r.payeeNodeKey = <<getPublicKey(hexToBytes(privateKeyHex).bytes).hex>>
  /\ Len(r.paymentRequest) = 1
  /\ bech32Decode(r.paymentRequest[1]).ok
  /\ bech32Decode(r.paymentRequest[1]).hrp = r.prefix
\* the records that decode returned
DecodedRecords ==
  (IF invPc \in {"decoded", "respelled", "done"} /\ invDec.ok THEN {invDec} ELSE {})
    \cup (IF invPc = "done" THEN {invDecWire[w] : w \in {v \in DOMAIN invDecWire : invDecWire[v].ok}}
          ELSE {})

\* C14: a record that encode returned is unsigned, and stays so when it is
\* signed and afterwards; a record that sign returned is signed with the
\* key; a record that decode returned is complete with a signature of 64
\* bytes; a signed record appears only by a step of sign from an unsigned
\* record, and never changes afterwards.
C14_Lifecycle ==
  /\ []((invPc # "start" /\ invPr.ok) => IsUnsigned(invPr))
  /\ []((invPc \notin {"start", "encoded"} /\ invSigned.ok) => IsSignedBy(invSigned, invKey))
  /\ [](\A r \in DecodedRecords : r.complete /\ Len(r.signature) = 128)
  /\ [][/\ invPr # <<>> => invPr' = invPr
        /\ invSigned' # invSigned =>
             invPc = "encoded" /\ invPc' = "signed" /\ IsUnsigned(invPr) /\ invSigned = <<>>]_vars
C14_Witness ==
  /\ invPc = "done" /\ invSigned.ok /\ invDec.ok /\ invDecWire.lower.ok
  /\ ~invPr.complete /\ invSigned.complete

\* the fields that the decoded and the signed record are compared on
ComparedFields ==
  {"paymentRequest", "complete", "prefix", "network", "satoshis", "millisatoshis", "timestamp",
   "timeExpireDate", "tags", "tagsObject", "signature", "recoveryFlag", "payeeNodeKey"}
\* whether two records have the same value in a field
SameField(f, a, b) ==
  IF f = "tags" THEN SameTags(a.tags, b.tags)
  ELSE IF f = "tagsObject" THEN SameTagsObject(a.tagsObject, b.tagsObject)
  ELSE a[f] = b[f]

\* C15: the record decoded from the payment request of a signed record is
\* the signed record in each of the fields paymentRequest, complete, prefix,
\* network, satoshis, millisatoshis, timestamp, timeExpireDate, tags,
\* tagsObject, signature, recoveryFlag and payeeNodeKey.
C15_DecodedEqualsSigned ==
  invPc \in {"decoded", "respelled", "done"} =>
    /\ invDec.ok
    /\ \A f \in ComparedFields : SameField(f, invDec, invSigned)

\* the index of the last tag of a name in a tag list, 0 when there is none
LastNamed(tags, name) ==
  IF \E i \in 1..Len(tags) : tags[i].tagName = name
  THEN CHOOSE i \in 1..Len(tags) :
         tags[i].tagName = name /\ \A j \in (i + 1)..Len(tags) : tags[j].tagName # name
  ELSE 0
\* tagsObject has under each name the data of the last tag of that name, and
\* nothing under a name that no tag has
LastWins(tags, tagsObject) ==
  \A name \in TagNames :
    IF LastNamed(tags, name) = 0 THEN tagsObject[name] = <<>>
    ELSE /\ Len(tagsObject[name]) = 1
         /\ tagsObject[name][1] = tags[LastNamed(tags, name)].data

\* C16: the tags of a decoded record are all the tags that were written, in
\* their order, the tags of one name included; in the decoded record and in
\* the record of encode, tagsObject has under each name the data of the last
\* tag of that name and nothing under a name without a tag.
C16_DuplicateTags ==
  /\ (invPc # "start" /\ invPr.ok) =>
       SameTags(invPr.tags, invOpts.tags) /\ LastWins(invOpts.tags, invPr.tagsObject)
  /\ (invPc \in {"decoded", "respelled", "done"}) =>
       /\ invDec.ok
       /\ SameTags(invDec.tags, invOpts.tags)
       /\ LastWins(invDec.tags, invDec.tagsObject)
C16_Witness ==
  /\ invPc = "decoded" /\ invDec.ok
  /\ \E i, j \in 1..Len(invDec.tags) :
       /\ i < j /\ invDec.tags[i].tagName = invDec.tags[j].tagName
       /\ invDec.tags[i].data # invDec.tags[j].data
       /\ invDec.tagsObject[invDec.tags[i].tagName] = <<invDec.tags[j].data>>
       /\ invPr.tagsObject[invDec.tags[i].tagName] = <<invDec.tags[j].data>>

\* the entries of a stream of tag words: each has a type, a declared length
\* len_hi * 32 + len_lo and the position at of its header, and the next
\* entry begins 3 + len words further; an entry is whole when its len words
\* are there, and the entries end at the first that is not, or when fewer
\* than three words are left
RECURSIVE EntriesFrom(_, _)
EntriesFrom(words, pos) ==
  IF pos + 3 > Len(words) THEN <<>>
  ELSE LET len == words[pos + 2] * 32 + words[pos + 3]
           entry == [type |-> words[pos + 1], len |-> len, at |-> pos,
                     whole |-> pos + 3 + len <= Len(words)]
       IN  IF entry.whole THEN <<entry>> \o EntriesFrom(words, pos + 3 + len) ELSE <<entry>>
\* an entry that claims more words than remain
Overlong(words) == \E i \in 1..Len(EntriesFrom(words, 0)) : ~EntriesFrom(words, 0)[i].whole
\* a whole fallback_address entry without a word
EmptyFallback(words) ==
  \E i \in 1..Len(EntriesFrom(words, 0)) :
    EntriesFrom(words, 0)[i].type = 9 /\ EntriesFrom(words, 0)[i].len = 0
\* the whole entries that the walk returns: those of a known type, without
\* the hashes and secrets of a length other than 52 and the payees of a
\* length other than 53
ReturnedEntries(words) ==
  SelectSeq(EntriesFrom(words, 0),
            LAMBDA e : /\ e.whole /\ e.type \in {1, 3, 5, 6, 9, 13, 16, 19, 23, 24, 27}
                       /\ e.type \in {1, 16, 23} => e.len = 52
                       /\ e.type = 19 => e.len = 53)
\* the tags are, in order, the returned entries: each has the name of the
\* entry's type and the data of the entry's words
TagsAreEntries(tags, words) ==
  /\ Len(tags) = Len(ReturnedEntries(words))
  /\ \A i \in 1..Len(tags) :
       LET e == ReturnedEntries(words)[i]
       IN  <<tags[i]>> = parseTagData(TAG_CODE_TO_NAME[e.type],
                                      Slice(words, e.at + 3, e.at + 3 + e.len), e.len).tag

\* C17 as stated: the walk raises 'Tag data extends beyond data part'
\* exactly when an entry claims more words than remain, and otherwise
\* returns, in order, the entries of known type without the hashes, secrets
\* and payees of a wrong length; one or two words at the end are ignored.
C17_TagWalk ==
  tagPc = "walked" =>
    /\ (~tagOut.ok /\ tagOut.err = "Tag data extends beyond data part") <=> Overlong(tagStream)
    /\ ~Overlong(tagStream) => tagOut.ok /\ TagsAreEntries(tagOut.tags, tagStream)

\* C17 as amended: the walk raises 'Empty fallback address' exactly when a
\* whole fallback_address entry has no word, raises 'Tag data extends beyond
\* data part' exactly when an entry claims more words than remain and no
\* such fallback_address entry comes before it, and otherwise returns, in
\* order, the entries of known type without the hashes, secrets and payees
\* of a wrong length; one or two words at the end are ignored.
C17_TagWalkAmended ==
  tagPc = "walked" =>
    /\ (~tagOut.ok /\ tagOut.err = "Empty fallback address") <=> EmptyFallback(tagStream)
    /\ (~tagOut.ok /\ tagOut.err = "Tag data extends beyond data part")
         <=> (Overlong(tagStream) /\ ~EmptyFallback(tagStream))
    /\ (~Overlong(tagStream) /\ ~EmptyFallback(tagStream)) =>
         tagOut.ok /\ TagsAreEntries(tagOut.tags, tagStream)
\* a stream of a dropped entry, a returned entry and two words has been
\* walked
C17_Witness ==
  /\ tagPc = "walked" /\ tagOut.ok /\ Len(tagOut.tags) = 1
  /\ Len(EntriesFrom(tagStream, 0)) = 2 /\ Len(ReturnedEntries(tagStream)) = 1
  /\ Len(tagStream) = EntriesFrom(tagStream, 0)[2].at + 3 + EntriesFrom(tagStream, 0)[2].len + 2

\* whether signature is recSig with S replaced by N - S
IsNormalized(signature) ==
  /\ Slice(signature, 0, 32) = Slice(recSig, 0, 32)
  /\ bytesToBigInt(Slice(signature, 32, 64)) = BigSub(N, bytesToBigInt(Slice(recSig, 32, 64)))
\* the outcome of the provider for the i-th attempt
Attempt(i) == Provider(recHash, recTried[i].signature, recTried[i].recovery, recStrict)
\* a second attempt is made only after the provider rejected the first, and
\* the key returned is that of the first attempt that succeeded, or null
FirstSuccess ==
  /\ Len(recTried) = 2 => ~Attempt(1).ok
  /\ recPc = "returned" =>
       /\ ~Attempt(1).ok => Len(recTried) = 2
       /\ recOut = IF Attempt(1).ok THEN <<bytesToHex(Attempt(1).bytes)>>
                   ELSE IF Attempt(2).ok THEN <<bytesToHex(Attempt(2).bytes)>> ELSE <<>>

\* C18 as stated: for a signature with S above N / 2 the first attempt has
\* the original signature and the original recovery id; the second attempt,
\* made only when the provider rejected the first, has S normalized to
\* N - S and the recovery id with its low bit flipped; the key returned is
\* that of the first attempt that succeeded.
C18_HighSOrder ==
  (IsHighS(recSig) /\ recPc \in {"second", "returned"}) =>
    /\ recTried[1] = [signature |-> recSig, recovery |-> recFlag]
    /\ Len(recTried) = 2 =>
         IsNormalized(recTried[2].signature) /\ recTried[2].recovery = BitXor(recFlag, 1)
    /\ FirstSuccess

\* C18 as amended: for a signature with S above N / 2 the first attempt has
\* the original signature and the recovery id with its low bit flipped; the
\* second attempt, made only when the provider rejected the first, has S
\* normalized to N - S and the original recovery id; the key returned is
\* that of the first attempt that succeeded.
C18_HighSOrderAmended ==
  (IsHighS(recSig) /\ recPc \in {"second", "returned"}) =>
    /\ recTried[1] = [signature |-> recSig, recovery |-> BitXor(recFlag, 1)]
    /\ Len(recTried) = 2 =>
         IsNormalized(recTried[2].signature) /\ recTried[2].recovery = recFlag
    /\ FirstSuccess
\* the provider rejected the first attempt for a signature with S above
\* N / 2, and the second attempt gave the key that is returned
C18_Witness ==
  /\ recPc = "returned" /\ IsHighS(recSig) /\ Len(recTried) = 2
  /\ ~Attempt(1).ok /\ Attempt(2).ok /\ recOut = <<bytesToHex(Attempt(2).bytes)>>

\* the signature and the recovery flag of a record are those of the data
\* words of a payment request: the flag is the low two bits of the last
\* word, and the signature is 64 bytes, in 128 hex characters, whose 5-bit
\* words are the 103 words before the last one
InEnvelope(record, paymentRequest) ==
  LET data == bech32Decode(paymentRequest).data
  IN  /\ record.recoveryFlag \in 0..3
      /\ record.recoveryFlag = data[Len(data)] % 4
      /\ Len(record.signature) = 128
      /\ hexToBytes(record.signature).ok
      /\ eightToFive(hexToBytes(record.signature).bytes)
           = Slice(data, Len(data) - 104, Len(data) - 1)

\* C19: in a record that sign returned and in a record that decode returned
\* the recovery flag is in 0..3, the low two bits of the 104th word from the
\* end of the data part, and the signature is the 64 bytes of the 103 words
\* before that word.
C19_SignatureEnvelope ==
  /\ (invPc \notin {"start", "encoded"} /\ invSigned.ok) =>
       InEnvelope(invSigned, invSigned.paymentRequest[1])
  /\ (invPc = "done" /\ invDecWire.sealed.ok) =>
       InEnvelope(invDecWire.sealed, invWire.sealed)

\* the seven 5-bit words of t, the most significant first
SevenWords(t) == [i \in 1..7 |-> BigModSmall(BigShr(t, 5 * (7 - i)), 32)]

\* C20: the data part of a signed payment request begins with the seven
\* big-endian 5-bit words of the record's timestamp, and the decoded
\* timestamp is the record's timestamp, for timestamps from 0 to 2^35 - 1.
C20_TimestampWidth ==
  /\ (invPc \notin {"start", "encoded"} /\ invSigned.ok) =>
       Slice(bech32Decode(invSigned.paymentRequest[1]).data, 0, 7) = SevenWords(invPr.timestamp)
  /\ (invPc \in {"decoded", "respelled", "done"}) =>
       invDec.ok /\ invDec.timestamp = invPr.timestamp

\* the tag words of a payment request: its data words without the seven of
\* the timestamp and the 104 of the signature
TagWordsOf(paymentRequest) ==
  Slice(bech32Decode(paymentRequest).data, 7, Len(bech32Decode(paymentRequest).data) - 104)
\* every entry of a hash or secret has 52 value words, every payee entry 53
FixedLengths(words) ==
  \A i \in 1..Len(EntriesFrom(words, 0)) :
    /\ EntriesFrom(words, 0)[i].type \in {1, 16, 23} => EntriesFrom(words, 0)[i].len = 52
    /\ EntriesFrom(words, 0)[i].type = 19 => EntriesFrom(words, 0)[i].len = 53

\* C21: in a payment request that sign produced from a record of encode,
\* every payment_hash, payment_secret and purpose_commit_hash entry has 52
\* value words and every payee entry 53, and the decoded record has as many
\* tags as the record of encode.
C21_FixedTagLengths ==
  /\ (invPc \in {"signed", "decoded"} /\ invSigned.ok) =>
       FixedLengths(TagWordsOf(invSigned.paymentRequest[1]))
  /\ invPc = "decoded" => invDec.ok /\ Len(invDec.tags) = Len(invPr.tags)

\* what each of the calls returns when it runs alone
Alone(call) ==
  IF call.kind = "sign" THEN sign(call.pr, call.key) ELSE decode(call.str)

\* C22: whatever the interleaving of the calls, a call that has returned or
\* thrown has the result that it has alone; a call that has not finished or
\* was dropped has no result; a step of one call leaves the results of the
\* other calls as they are; and the table NETWORKS keeps its value.
C22_Reentrancy ==
  /\ [](\A t \in Tasks : taskPc[t] \in {"done", "failed"} =>
                           taskOut[t] = <<Alone(taskCall[t])>>)
  /\ [](\A t \in Tasks : taskPc[t] \in {"start", "awaiting", "cancelled"} => taskOut[t] = <<>>)
  /\ [](networks = NETWORKS)
  /\ [][/\ networks' = networks
        /\ \A t \in Tasks : taskPc'[t] = taskPc[t] => taskOut'[t] = taskOut[t]]_vars
\* a call of sign has returned its record after another call of sign and a
\* call of decode were suspended, and one of these was then dropped
C22_Witness ==
  /\ \E t \in Tasks : /\ taskPc[t] = "done" /\ taskCall[t].kind = "sign"
                      /\ taskOut[t][1].complete
  /\ \E t \in Tasks : /\ taskPc[t] \in {"cancelled", "failed"}
                      /\ signFrame[t] # <<>> \/ decodeFrame[t] # <<>>

\* a tag of the list has a name that is none of the eleven
HasUnknownTag(tags) == \E i \in 1..Len(tags) : tags[i].tagName \notin TagNames

\* C23: encode throws for a tag list with a tag of an unknown name, and sign
\* of a record that encode returned fails with an error of the crypto
\* provider or not at all.
C23_UnknownTagAtEncode ==
  /\ (invPc # "start" /\ HasUnknownTag(invOpts.tags)) => ~invPr.ok
  /\ (invPc \in {"signed", "decoded"} /\ ~invSigned.ok) =>
       invSigned.err = "crypto provider error"

\* what recoverPublicKey gives for the signature part of a payment request
RecoveryIn(hrp, data) ==
  recoverPublicKey(sha256(concatBytes(stringToBytes(hrp),
                                      fiveToEight(Slice(data, 0, Len(data) - 104), TRUE))),
                   fiveToEightTrim(Slice(data, Len(data) - 104, Len(data) - 1)),
                   data[Len(data)])
RecoveryOf(paymentRequest) ==
  RecoveryIn(bech32Decode(paymentRequest).hrp, bech32Decode(paymentRequest).data)
\* the record that decode builds from its locals when the payee key is key
RecordWith(locals, key) ==
  DecodeTimes(locals.paymentRequest, locals.h, locals.timestamp, locals.tags, locals.sig,
              key, buildTagsObject_decode(locals.tags))
\* two records have the same fields but for payeeNodeKey
SameButKey(a, b) == \A f \in ComparedFields \ {"payeeNodeKey"} : SameField(f, a, b)

\* C24: when the recovery of the public key fails for a payment request
\* that passes the checksum, the prefix, the length and the tags and has no
\* payee tag, decode returns a record whose payeeNodeKey is null and whose
\* other fields are those of the record with a recovered key.
C24_RecoveryNotFatal ==
  (invPc = "done" /\ RecoveryOf(invWire.sealed) = <<>>) =>
    /\ invDecWire.sealed.ok
    /\ invDecWire.sealed.payeeNodeKey = <<>>
    /\ SameButKey(invDecWire.sealed,
                  RecordWith(DecodeStarted(invWire.sealed),
                             <<getPublicKey(hexToBytes(invKey).bytes).hex>>))

\* the digits of n in base 32, the most significant first, without a
\* leading zero; the digit 0 for n = 0
MinDigits(n) ==
  IF Len(n) = 0 THEN <<0>>
  ELSE [i \in 1..CeilDiv(BigBitLen(n), 5) |->
          BigModSmall(BigShr(n, 5 * (CeilDiv(BigBitLen(n), 5) - i)), 32)]
\* the value words of the last entry of a stream of tag words
LastEntryWords(words) ==
  LET e == EntriesFrom(words, 0)[Len(EntriesFrom(words, 0))]
  IN  Slice(words, e.at + 3, e.at + 3 + e.len)

\* C25: for an expire_time or min_final_cltv_expiry of n, 0 <= n < 2^35, the
\* signed payment request has the entry whose value words are the digits of
\* n in base 32 without a leading zero (one word 0 for n = 0), and the
\* decoded tag has the data n.
C25_IntegerTags ==
  /\ (invPc \in {"signed", "decoded"}) =>
       /\ invSigned.ok
       /\ LastEntryWords(TagWordsOf(invSigned.paymentRequest[1]))
            = MinDigits(invOpts.tags[Len(invOpts.tags)].data)
  /\ invPc = "decoded" =>
       /\ invDec.ok
       /\ Len(invDec.tags) = Len(invOpts.tags)
       /\ invDec.tags[Len(invDec.tags)].tagName = invOpts.tags[Len(invOpts.tags)].tagName
       /\ invDec.tags[Len(invDec.tags)].data = invOpts.tags[Len(invOpts.tags)].data

\* bit i of a list of k words as the claim has it: bit i mod 5 of the word
\* k - 1 - floor(i / 5), counted from 0; clear from 5 k on
WordBit(words, i) ==
  /\ i < 5 * Len(words)
  /\ (words[Len(words) - (i \div 5)] \div Pow2(i % 5)) % 2 = 1
\* the set bits from 20 on
ExtraBits(words) == {i \in 20..(5 * Len(words) - 1) : WordBit(words, i)}
\* a sequence is the ascending list of the set S
IsAscendingListOf(list, S) ==
  /\ Len(list) = Cardinality(S)
  /\ \A j \in 1..Len(list) : list[j] \in S
  /\ \A j \in 1..(Len(list) - 1) : list[j] < list[j + 1]

\* C26: the object parsed from k words has word_length k; under the name of
\* each even position e from 0 to 18 it has nothing when bits e and e + 1
\* are clear, and otherwise required = bit e and supported = bit e + 1 or
\* bit e; extra_bits.bits is the ascending list of the set bits from 20 on
\* and has_required says whether one of them is even.
C26_FeatureBitParsing ==
  fbPc \in {"parsed", "reencoded"} =>
    /\ fbObj[1].word_length = Len(fbWords)
    /\ \A n \in 1..Len(FeatureNames) :
         fbObj[1][FeatureNames[n]]
           = IF WordBit(fbWords, 2 * (n - 1)) \/ WordBit(fbWords, 2 * (n - 1) + 1)
             THEN <<[required |-> WordBit(fbWords, 2 * (n - 1)),
                     supported |-> \/ WordBit(fbWords, 2 * (n - 1) + 1)
                                   \/ WordBit(fbWords, 2 * (n - 1))]>>
             ELSE <<>>
    /\ IsAscendingListOf(fbObj[1].extra_bits[1].bits, ExtraBits(fbWords))
    /\ fbObj[1].extra_bits[1].has_required <=> \E i \in ExtraBits(fbWords) : i % 2 = 0
\* five words with every bit set have been parsed: ten features required
\* and supported, and the extra bits 20..24
C26_Witness ==
  /\ fbPc = "parsed" /\ fbWords = <<31, 31, 31, 31, 31>>
  /\ fbObj[1].basic_mpp = <<[required |-> TRUE, supported |-> TRUE]>>
  /\ fbObj[1].extra_bits[1].bits = <<20, 21, 22, 23, 24>>

\* the bits that a FeatureBits object asks to set
SetBitsOf(f) ==
  {2 * (n - 1) : n \in {n \in 1..Len(FeatureNames) :
                          Len(f[FeatureNames[n]]) > 0 /\ f[FeatureNames[n]][1].required}}
    \cup {2 * (n - 1) + 1 : n \in {n \in 1..Len(FeatureNames) :
                                     Len(f[FeatureNames[n]]) > 0 /\ f[FeatureNames[n]][1].supported}}
    \cup (IF Len(f.extra_bits) = 0 THEN {}
          ELSE {f.extra_bits[1].bits[j] : j \in 1..Len(f.extra_bits[1].bits)})

\* C27 as stated: the words encoded from the object parsed from w are w, of
\* the same word_length, and the object parsed from the words encoded from
\* f is f when the set bits of f lie below word_length * 5.
C27_FeatureRoundTrip ==
  /\ fbPc = "reencoded" => fbOut = fbWords /\ fbObj[1].word_length = Len(fbWords)
  /\ fbPc = "reparsed" /\ (\A i \in SetBitsOf(fbObj[1]) : i < 5 * fbObj[1].word_length)
       => fbOut = fbObj

\* every set bit at an even position below 20 has the bit above it set,
\* unless that bit is past the last one
PairedBits(words) ==
  \A n \in 1..Len(FeatureNames) :
    WordBit(words, 2 * (n - 1)) =>
      WordBit(words, 2 * (n - 1) + 1) \/ 2 * (n - 1) + 1 >= 5 * Len(words)
\* the form in which parseFeatureBits writes an object: a named feature that
\* is present is supported, and extra_bits is present with start_bit 20,
\* ascending bits from 20 on and has_required saying whether one is even
ParsedForm(f) ==
  /\ \A n \in 1..Len(FeatureNames) :
       Len(f[FeatureNames[n]]) > 0 => f[FeatureNames[n]][1].supported
  /\ Len(f.extra_bits) = 1
  /\ f.extra_bits[1].start_bit = 20
  /\ \A j \in 1..Len(f.extra_bits[1].bits) : f.extra_bits[1].bits[j] >= 20
  /\ \A j \in 1..(Len(f.extra_bits[1].bits) - 1) :
       f.extra_bits[1].bits[j] < f.extra_bits[1].bits[j + 1]
  /\ f.extra_bits[1].has_required
       <=> \E j \in 1..Len(f.extra_bits[1].bits) : f.extra_bits[1].bits[j] % 2 = 0

\* C27, amended: the words encoded from the object parsed from w are w, of
\* the same word_length, when every set even bit below 20 of w has its odd
\* bit set or lying past the end; the object parsed from the words encoded
\* from f is f when f has the form that parsing writes and its set bits lie
\* below word_length * 5.
C27_FeatureRoundTrip_Amended ==
  /\ fbPc = "reencoded" =>
       /\ fbObj[1].word_length = Len(fbWords) /\ Len(fbOut) = Len(fbWords)
       /\ PairedBits(fbWords) => fbOut = fbWords
  /\ /\ fbPc = "reparsed" /\ ParsedForm(fbObj[1])
     /\ \A i \in SetBitsOf(fbObj[1]) : i < 5 * fbObj[1].word_length
     => fbOut = fbObj
\* an object in five words with var_onion_optin required and the extra bits
\* 22 and 24 has been encoded and parsed and came back
C27_Witness ==
  /\ fbPc = "reparsed" /\ fbOut = fbObj /\ fbObj[1].word_length = 5
  /\ fbObj[1].var_onion_optin = <<[required |-> TRUE, supported |-> TRUE]>>
  /\ fbObj[1].extra_bits[1].bits = <<22, 24>>

\* a string begins with another
BeginsWith(str, p) == Len(str) >= Len(p) /\ SubSeq(str, 1, Len(p)) = p
\* the amount of a token, as the decoder gives an amount
AmountOf(tok) ==
  IF Len(tok) = 0 THEN <<>>
  ELSE <<[satoshis |-> IF BigModSmall(TokenMsat(tok), 1000) = 0
                        THEN <<BigDivSmall(TokenMsat(tok), 1000)>> ELSE <<>>,
          millisatoshis |-> <<BigToString(TokenMsat(tok))>>]>>

\* C28: 'ln', the prefix of a network N and a token of the grammar or no
\* token parse to N and the amount of the token; a part that begins with
\* 'lnbcrt' or 'lntbs' and parses is regtest or signet; a part that does not
\* begin with 'ln', or with 'ln' and the prefix of a network, is rejected.
C28_HrpParsing ==
  hrpPc \in {"parsed", "done"} =>
    /\ (hrpNet # "none" /\ (Len(hrpTok) = 0 \/ InGrammar(hrpTok))) =>
         /\ hrpOut[1].ok
         /\ hrpOut[1].network = NETWORKS[hrpNet]
         /\ hrpOut[1].amount = AmountOf(hrpTok)
    /\ (hrpOut[1].ok /\ BeginsWith(hrpIn, <<108, 110, 98, 99, 114, 116>>)) =>
         hrpOut[1].network = NETWORKS.regtest
    /\ (hrpOut[1].ok /\ BeginsWith(hrpIn, <<108, 110, 116, 98, 115>>)) =>
         hrpOut[1].network = NETWORKS.signet
    /\ (~ \E k \in 1..Len(NetworkNames) :
            BeginsWith(hrpIn, <<108, 110>> \o NETWORKS[NetworkNames[k]].bech32)) =>
         ~hrpOut[1].ok

\* the payee tags among decoded tags
PayeesOf(tags) == {i \in 1..Len(tags) : tags[i].tagName = "payee"}

\* C29: when the decoded tags have a payee tag, payeeNodeKey is
\* tagsObject.payee, whatever the signature would give, also with several
\* payee tags; when they have none, payeeNodeKey is what the recovery from
\* the signature gives.
C29_PayeePrecedence ==
  (invPc = "decoded" /\ invDec.ok) =>
    IF PayeesOf(invDec.tags) # {}
    THEN invDec.payeeNodeKey = invDec.tagsObject.payee
    ELSE invDec.payeeNodeKey = RecoveryOf(invSigned.paymentRequest[1])

\* the entries of a walk are those of the tags, in order: each has the code
\* of its tag and as length the number of words written for the tag's value,
\* and these words follow its header
EntriesOfTags(words, entries, tags) ==
  /\ Len(entries) = Len(tags)
  /\ \A i \in 1..Len(entries) :
       /\ i <= Len(tags)
       /\ entries[i].type = TAG_NAME_TO_CODE[tags[i].tagName]
       /\ entries[i].whole
       /\ entries[i].len = Len(encodeTagData(tags[i]).words)
       /\ Slice(words, entries[i].at + 3, entries[i].at + 3 + entries[i].len)
            = encodeTagData(tags[i]).words

\* C30: in a payment request that sign produced, the walk over the tag
\* words by the lengths of the headers gives one entry per tag of the
\* record, in order, with the tag's code and with len_hi * 32 + len_lo the
\* number of value words written for it; and decode returns as many tags,
\* of the same names in the same order.
C30_TagHeaders ==
  /\ (invPc \in {"signed", "decoded"} /\ invSigned.ok) =>
       EntriesOfTags(TagWordsOf(invSigned.paymentRequest[1]),
                     EntriesFrom(TagWordsOf(invSigned.paymentRequest[1]), 0), invPr.tags)
  /\ invPc = "decoded" =>
       /\ invDec.ok
       /\ Len(invDec.tags) = Len(invPr.tags)
       /\ \A i \in 1..Len(invDec.tags) :
            i <= Len(invPr.tags) /\ invDec.tags[i].tagName = invPr.tags[i].tagName
=============================================================================
